---- MODULE Spec2Model ----
(***************************************************************************)
(* Scraping pipeline of coral-compare (src/unnamed/part_000, lines         *)
(* 1149-2010, the scrape route; src/app/api/scrape/route.ts holds a copy   *)
(* of its helpers): the HTTP fetcher with retry, the URL normaliser, the   *)
(* listing builders with torch enforcement, and the store's upsert.        *)
(*                                                                         *)
(* Encodings.  A nullable JavaScript value is a sequence of length at most *)
(* one: <<>> is null, <<x>> is the value x.  A string the code inspects    *)
(* character by character (a path segment, a query key, a title) is a      *)
(* sequence of one-character strings.                                      *)
(***************************************************************************)
EXTENDS Integers, Sequences, FiniteSets, TLC

VARIABLES
    \* ---- fetchWithRetry (one call at a time) ----
    fpc,          \* position in fetchWithRetry
    maxAttempts,  \* its second parameter
    attempt,      \* the loop counter
    requests,     \* GET requests issued by this call
    sleepCount,   \* sleeps started by this call
    sleepMs,      \* duration of the sleep in progress (0 when none)
    resp,         \* the last response received
    lastErr,      \* the variable lastErr: null or the status it carries
    ferror,       \* the error thrown: null or [kind, status]
    \* ---- URL normaliser (applied to one URL and one variant of it) ----
    uIn,          \* a parsed URL
    uAlt,         \* a URL related to uIn as uRel says
    uRel,         \* "same", "tracking", "locale", "perm" or "query"
    uStage,       \* "raw", "normalized" or "renormalized"
    outIn,        \* normalizeUrl(uIn)
    outAlt,       \* normalizeUrl(uAlt)
    canIn,        \* canonicalProductUrl(uIn)
    canAlt,       \* canonicalProductUrl(uAlt)
    outAgain,     \* normalizeUrl(normalizeUrl(uIn))
    \* ---- scrapeSource (one source at a time) ----
    spc,          \* position in scrapeSource
    src,          \* the source row: [url, shop_id, category]
    links,        \* the discovered links not yet visited
    left,         \* catalog products not yet visited
    lpath,        \* extraction path of the last item visited
    torchArg,     \* the object that path handed to enforceTorch (or null)
    built,        \* the listing it handed to upsertIfValid (or null)
    accepted,     \* upsertIfValid returned true for it
    store,        \* the rows of the listings table
    found,        \* the counter found
    applied,      \* how many upserts of this source the store applied
    sret,         \* what scrapeSource returned (null: it has not returned)
    \* ---- the listing builders, applied to one input ----
    bStage,       \* "idle", "input" or "built"
    bKind,        \* "js", "html" or "catalog": the builder the input is for
    bIn,          \* the product JSON or the page
    bBest,        \* the local best.v of the builder (null: no variant selected)
    bOut,         \* the listing returned (or null)
    \* ---- upsertIfValid, called several times on one table ----
    upStore,      \* the rows of the listings table
    upPrev,       \* the rows before the last call
    upArg,        \* the argument of the last call
    upRet,        \* what the last call returned
    upCalls,      \* calls made
    \* ---- extractLinksWithPagination ----
    wpc,          \* "idle", "loop" (at the head of the for loop), "done"
    wStart,       \* startUrl
    wMax,         \* maxPages
    wP,           \* p
    wAll,         \* all, in insertion order
    wPages,       \* pages
    wReq,         \* the URLs requested for the last page, in order
    wLog,         \* one record per page processed: page, got (html), added
    wQueryOk,     \* whether the query form of the last page was fetched
    \* ---- the trigger endpoint and run() ----
    rpc,          \* "idle", "request", "deleted", "loop", "scraping", "responded"
    rRoute,       \* the route file deployed: "unnamed" (part_000) or "app"
    rSecret,      \* SCRAPE_SECRET ("" when not configured)
    rReq,         \* the request: method, authorization header, secret parameter
    rSources,     \* data: the active sources, in the order read
    rIdx,         \* index of the source the loop of run() is at (0: no loop yet)
    rDebug,       \* debug
    rFail,        \* for each entry of debug, what failed in that source
    rApplied,     \* for each entry of debug, the upserts the store applied
    rTotal,       \* total
    rStatus,      \* status of the response (0: none yet)
    rBody,        \* body of the response
    \* ---- scrapeSource up to catalog mode: routing, probe, catalog pages ----
    kpc,          \* "idle", "start", "probing", "paging", "upserting", "done"
    kSrc,         \* the source row
    kProbe,       \* what the probe met: "none", "array", "no-array", "bad-json", "threw"
    kProbeReqs,   \* requests the probe issued
    kMode,        \* "none", "missing", "reef", "catalog", "discover", "error"
    kPage,        \* page of fetchShopifyCatalogProducts
    kLog,         \* the products field of every catalog page that came back
    kOut,         \* out
    kLastUrl,     \* the URL of the last request
    kLeft,        \* products the loop of the catalog scraper has not visited
    kVisited,     \* products it has visited
    kRet,         \* the return taken: "none", "found" ({source, found}), "error"
    \* ---- the image of a product page ----
    iStage,       \* "idle", "input" or "picked"
    iKind,        \* "woo" (parseHtmlProduct) or "html" (parseShopifyHtmlFallback)
    iCands,       \* the image candidates of the page, in priority order
    iOut,         \* imageUrl
    \* ---- two runs at once on one store ----
    oPc,          \* per run: "idle", "start", "upserting" or "done"
    oIdx,         \* per run: the listing its loop is at
    oList,        \* the listings the sources give, to either run, in order
    oStore,       \* the rows of the listings table
    oWiped,       \* whether a delete removed a row one of the two runs wrote
    \* ---- the awaited calls of one run ----
    qPc,          \* <<call site, phase>>: "call", "wait" (the call is awaited), "backoff"
    qMode,        \* how the source at hand is scraped: "none", "catalog", "links"
    qSrc,         \* sources the loop of run() has still to start
    qItems,       \* products or links the loop of the source has still to start
    qPages,       \* pages fetched for the source at hand
    qHttp,        \* HTTP requests in flight
    qStore        \* store operations pending

fetchVars == <<fpc, maxAttempts, attempt, requests, sleepCount, sleepMs, resp, lastErr, ferror>>

urlVars == <<uIn, uAlt, uRel, uStage, outIn, outAlt, canIn, canAlt, outAgain>>

scrapeVars == <<spc, src, links, left, lpath, torchArg, built, accepted, store, found, applied, sret>>

buildVars == <<bStage, bKind, bIn, bBest, bOut>>

upsertVars == <<upStore, upPrev, upArg, upRet, upCalls>>

walkVars == <<wpc, wStart, wMax, wP, wAll, wPages, wReq, wLog, wQueryOk>>

runVars == <<rpc, rRoute, rSecret, rReq, rSources, rIdx, rDebug, rFail, rApplied, rTotal, rStatus, rBody>>

catVars == <<kpc, kSrc, kProbe, kProbeReqs, kMode, kPage, kLog, kOut, kLastUrl, kLeft, kVisited, kRet>>

imgVars == <<iStage, iKind, iCands, iOut>>

overlapVars == <<oPc, oIdx, oList, oStore, oWiped>>

seqVars == <<qPc, qMode, qSrc, qItems, qPages, qHttp, qStore>>

vars == <<fetchVars, urlVars, scrapeVars, buildVars, upsertVars, walkVars, runVars, catVars, imgVars, overlapVars, seqVars>>

(***************************************************************************)
(* Nullable values                                                         *)
(***************************************************************************)
Null == <<>>
Some(x) == <<x>>
IsNull(v) == v = <<>>
Val(v) == v[1]

Min(a, b) == IF a <= b THEN a ELSE b

RECURSIVE Pow2(_)
Pow2(n) == IF n <= 0 THEN 1 ELSE 2 * Pow2(n - 1)

(***************************************************************************)
(* Bounds of the model                                                     *)
(***************************************************************************)
\* Math.random() is drawn from the grid {0, 1/RandRes, ..., (RandRes-1)/RandRes}.
RandRes == 8
\* Largest number of seconds a numeric Retry-After header carries.
MaxRetryAfter == 2

(***************************************************************************)
(* Program constants of the fetcher                                        *)
(***************************************************************************)
DefaultMaxAttempts == 10
ProbeMaxAttempts == 3
BackoffCapMs == 60000
BackoffBaseMs == 1200
RetryJitterMs == 600

\* The values of maxAttempts: the default (fetchHtml, fetchJson), the Shopify
\* probe's, and the two smallest.
MaxAttemptsValues == {0, 1, ProbeMaxAttempts, DefaultMaxAttempts}

\* Response statuses: 2xx, a redirect left unfollowed, client errors, 429, 5xx.
Statuses == {200, 204, 304, 404, 429, 500, 503, 599}

\* The Retry-After header as received: absent, empty, not a number (an
\* HTTP-date), or a number of seconds.
RetryAfterHeaders ==
    {[kind |-> k, n |-> 0] : k \in {"absent", "empty", "text"}}
        \cup {[kind |-> "num", n |-> s] : s \in -1..MaxRetryAfter}

NoResp == [status |-> 0, retryAfter |-> [kind |-> "absent", n |-> 0]]

(***************************************************************************)
(* fetchWithRetry and its helpers                                          *)
(***************************************************************************)
\* Response.ok
ResponseOk(status) == status >= 200 /\ status <= 299

IsRetryableAll4xx(status) == status >= 400 /\ status <= 599
\* r.status === 429 || (r.status >= 500 && r.status <= 599)
IsRetryable(status) == status = 429 \/ (status >= 500 /\ status <= 599)

\* Number(h) for a header value: null stands for NaN
HeaderNumber(h) == IF h.kind = "num" THEN Some(h.n) ELSE Null

parseRetryAfterSeconds(h) ==
    IF h.kind \in {"absent", "empty"} THEN Null
    ELSE LET n == HeaderNumber(h)
         IN IF ~IsNull(n) /\ Val(n) > 0 THEN n ELSE Null

\* Math.floor(Math.random() * max): the set of values it can take
jitterMs(max) == {(k * max) \div RandRes : k \in 0..(RandRes - 1)}

ExpBackoffOffByOne(att) == Min(BackoffCapMs, BackoffBaseMs * Pow2(att))
\* Math.min(60000, 1200 * Math.pow(2, attempt - 1))
ExpBackoff(att) == Min(BackoffCapMs, BackoffBaseMs * Pow2(att - 1))

\* const base = ra != null ? ra * 1000 : 0; const backoff = base || Math.min(...)
Backoff(h, att) ==
    LET ra == parseRetryAfterSeconds(h)
        base == IF ~IsNull(ra) THEN Val(ra) * 1000 ELSE 0
    IN IF base # 0 THEN base ELSE ExpBackoff(att)

\* What a step of the fetcher leaves alone.
FetchFrame == UNCHANGED <<urlVars, scrapeVars, buildVars, upsertVars, walkVars, runVars, catVars, imgVars, overlapVars, seqVars>>

LoopGuardOneMore(att, m) == att <= m + 1
\* for (let attempt = 1; attempt <= maxAttempts; attempt++)
LoopGuard(att, m) == att <= m

FetchInit ==
    /\ fpc = "idle"
    /\ maxAttempts = 0
    /\ attempt = 0
    /\ requests = 0
    /\ sleepCount = 0
    /\ sleepMs = 0
    /\ resp = NoResp
    /\ lastErr = Null
    /\ ferror = Null

\* A caller enters fetchWithRetry(url, m).
FetchCall(m) ==
    /\ fpc \in {"idle", "returned", "thrown"}
    /\ fpc' = "loop"
    /\ maxAttempts' = m
    /\ attempt' = 1
    /\ requests' = 0
    /\ sleepCount' = 0
    /\ sleepMs' = 0
    /\ resp' = NoResp
    /\ lastErr' = Null
    /\ ferror' = Null
    /\ FetchFrame

\* The loop test passes: await fetch(url, ...)
FetchIssue ==
    /\ fpc = "loop"
    /\ LoopGuard(attempt, maxAttempts)
    /\ fpc' = "awaitResp"
    /\ requests' = requests + 1
    /\ UNCHANGED <<maxAttempts, attempt, sleepCount, sleepMs, resp, lastErr, ferror>>
    /\ FetchFrame

\* The loop test fails: throw lastErr || new Error(`fetch failed`)
FetchExhausted ==
    /\ fpc = "loop"
    /\ ~LoopGuard(attempt, maxAttempts)
    /\ fpc' = "thrown"
    /\ ferror' = IF ~IsNull(lastErr)
                 THEN Some([kind |-> "HTTP", status |-> Val(lastErr)])
                 ELSE Some([kind |-> "fetch failed", status |-> 0])
    /\ UNCHANGED <<maxAttempts, attempt, requests, sleepCount, sleepMs, resp, lastErr>>
    /\ FetchFrame

\* The response arrives: return it, start the backoff sleep, or throw.
FetchResponse(st, h) ==
    /\ fpc = "awaitResp"
    /\ resp' = [status |-> st, retryAfter |-> h]
    /\ IF ResponseOk(st)
       THEN /\ fpc' = "returned"
            /\ UNCHANGED <<sleepCount, sleepMs, ferror>>
       ELSE IF IsRetryable(st)
       THEN /\ fpc' = "sleeping"
            /\ \E j \in jitterMs(RetryJitterMs) : sleepMs' = Backoff(h, attempt) + j
            /\ sleepCount' = sleepCount + 1
            /\ UNCHANGED ferror
       ELSE /\ fpc' = "thrown"
            /\ ferror' = Some([kind |-> "fetch", status |-> st])
            /\ UNCHANGED <<sleepCount, sleepMs>>
    /\ UNCHANGED <<maxAttempts, attempt, requests, lastErr>>
    /\ FetchFrame

\* The sleep ends: lastErr = new Error(`HTTP ${r.status}`); continue
FetchWake ==
    /\ fpc = "sleeping"
    /\ lastErr' = Some(resp.status)
    /\ attempt' = attempt + 1
    /\ sleepMs' = 0
    /\ fpc' = "loop"
    /\ UNCHANGED <<maxAttempts, requests, sleepCount, resp, ferror>>
    /\ FetchFrame

FetchNext ==
    \/ \E m \in MaxAttemptsValues : FetchCall(m)
    \/ FetchIssue
    \/ FetchExhausted
    \/ \E st \in Statuses, h \in RetryAfterHeaders : FetchResponse(st, h)
    \/ FetchWake


(***************************************************************************)
(* Claims about fetchWithRetry (checked under SpecFetch)                   *)
(***************************************************************************)
NonRetryableStatus(st) ==
    /\ st # 0
    /\ ~(st >= 200 /\ st <= 299)
    /\ st # 429
    /\ ~(st >= 500 /\ st <= 599)

\* C1: a response whose status is not 2xx, not 429 and not 5xx makes the call
\* fail on the attempt that received it, whatever its number: the call is in
\* its thrown state with that status, every request issued is one of the
\* attempts up to this one, only the earlier attempts slept, and no sleep is
\* in progress.  (The response stays in resp until the next call, so a later
\* request or sleep of the same call would break the counts.)
C1_NonRetryableFailsAtOnce ==
    NonRetryableStatus(resp.status) =>
        /\ fpc = "thrown"
        /\ ferror = Some([kind |-> "fetch", status |-> resp.status])
        /\ requests = attempt
        /\ sleepCount = attempt - 1
        /\ sleepMs = 0

C1_Witness ==
    /\ fpc = "thrown"
    /\ resp.status = 404
    /\ attempt = 4
    /\ requests = 4

\* C2: a call never issues more than maxAttempts requests; when every response
\* was 429 or 5xx the call fails after exactly maxAttempts requests with the
\* status of the last response; a 2xx on attempt k is returned after exactly k
\* requests.
C2_AtMostMaxAttempts ==
    /\ requests <= maxAttempts
    /\ (fpc = "thrown" /\ requests > 0 /\ sleepCount = requests) =>
            /\ requests = maxAttempts
            /\ ferror = Some([kind |-> "HTTP", status |-> resp.status])
    /\ fpc = "returned" =>
            /\ resp.status >= 200 /\ resp.status <= 299
            /\ requests = attempt
            /\ attempt <= maxAttempts
            /\ sleepCount = attempt - 1

C2_Witness ==
    /\ fpc = "thrown"
    /\ requests = DefaultMaxAttempts
    /\ sleepCount = DefaultMaxAttempts
    /\ ferror = Some([kind |-> "HTTP", status |-> 503])

\* C3: after a 429 or 5xx on attempt n the call sleeps d + j ms, 0 <= j < 600,
\* with d = 1000 * Retry-After when the header is a positive number and
\* d = min(60000, 1200 * 2^(n-1)) otherwise; a 429 with Retry-After: 2 on
\* attempt 1 sleeps at least 2000 and less than 2600 ms.
C3_SleepDuration ==
    fpc = "sleeping" =>
        LET h == resp.retryAfter
            d == IF h.kind = "num" /\ h.n > 0
                 THEN 1000 * h.n
                 ELSE Min(60000, 1200 * Pow2(attempt - 1))
        IN /\ resp.status = 429 \/ (resp.status >= 500 /\ resp.status <= 599)
           /\ sleepMs - d >= 0
           /\ sleepMs - d < 600
           /\ (resp.status = 429 /\ h = [kind |-> "num", n |-> 2] /\ attempt = 1) =>
                  (sleepMs >= 2000 /\ sleepMs < 2600)

C3_Witness ==
    /\ fpc = "sleeping"
    /\ resp = [status |-> 429, retryAfter |-> [kind |-> "num", n |-> 2]]
    /\ attempt = 1
    /\ sleepMs > 2000

\* The capped backoff is reached (attempt 7 and later).
C3_CapReached ==
    /\ fpc = "sleeping"
    /\ resp.retryAfter.kind = "text"
    /\ attempt = 7
    /\ sleepMs >= 60000

(***************************************************************************)
(* URL strings and the URL object                                          *)
(*                                                                         *)
(* A URL string is the sequence of its tokens: the origin, then the        *)
(* delimiters "/", "?", "&", "=" and the texts between them; a text is a   *)
(* sequence of characters (the origin counts as one text).                 *)
(* "https://h/en/x/?a=1" is                                                *)
(* <<Origin, Slash, <<"e","n">>, Slash, <<"x">>, Slash, QMark, <<"a">>,    *)
(* EqSign, <<"1">>>>.  A URL object is [origin, pathname, params]:         *)
(* pathname a token sequence, params the list of <<key, value>> pairs      *)
(* behind searchParams.                                                    *)
(***************************************************************************)
Slash == <<"/">>
QMark == <<"?">>
Amp == <<"&">>
EqSign == <<"=">>
Delims == {Slash, QMark, Amp, EqSign}

Origin == <<"https://shop.example">>

LowerLetters ==
    {"a", "b", "c", "d", "e", "f", "g", "h", "i", "j", "k", "l", "m",
     "n", "o", "p", "q", "r", "s", "t", "u", "v", "w", "x", "y", "z"}
UpperLetters ==
    {"A", "B", "C", "D", "E", "F", "G", "H", "I", "J", "K", "L", "M",
     "N", "O", "P", "Q", "R", "S", "T", "U", "V", "W", "X", "Y", "Z"}
Letters == LowerLetters \cup UpperLetters

\* The characters of query keys in the order of String.prototype.localeCompare
\* (punctuation, then digits, then letters).
CollationOrder ==
    <<"_", "-", "0", "1", "2", "3", "a", "b", "c", "d", "e", "f", "g", "h", "i",
      "j", "k", "l", "m", "n", "o", "p", "q", "r", "s", "t", "u", "v", "w", "x",
      "y", "z">>
CharRank(c) == CHOOSE i \in 1..Len(CollationOrder) : CollationOrder[i] = c

\* a.localeCompare(b): negative, zero or positive
RECURSIVE localeCompare(_, _)
localeCompare(a, b) ==
    IF a = <<>> /\ b = <<>> THEN 0
    ELSE IF a = <<>> THEN -1
    ELSE IF b = <<>> THEN 1
    ELSE IF CharRank(Head(a)) < CharRank(Head(b)) THEN -1
    ELSE IF CharRank(Head(a)) > CharRank(Head(b)) THEN 1
    ELSE localeCompare(Tail(a), Tail(b))

\* A text as it stands in a string: the empty text leaves no token.
Txt(t) == IF t = <<>> THEN <<>> ELSE <<t>>

\* Index of the first token of s equal to t, 0 when there is none.
IndexOf(s, t) ==
    IF \E i \in 1..Len(s) : s[i] = t
    THEN CHOOSE i \in 1..Len(s) : s[i] = t /\ \A j \in 1..(i - 1) : s[j] # t
    ELSE 0

\* The tokens of s split at every token equal to t.
RECURSIVE SplitOn(_, _)
SplitOn(s, t) ==
    LET i == IndexOf(s, t)
    IN IF i = 0 THEN <<s>>
       ELSE <<SubSeq(s, 1, i - 1)>> \o SplitOn(SubSeq(s, i + 1, Len(s)), t)

\* One "key=value" part of a query string as a pair.
ParsePair(part) ==
    LET i == IndexOf(part, EqSign)
        k == IF i = 0 THEN part ELSE SubSeq(part, 1, i - 1)
        v == IF i = 0 THEN <<>> ELSE SubSeq(part, i + 1, Len(part))
    IN <<IF k = <<>> THEN <<>> ELSE k[1], IF v = <<>> THEN <<>> ELSE v[1]>>

\* new URLSearchParams(query): empty parts ("a=1&&b=2") are skipped
ParseQuery(q) ==
    LET parts == SelectSeq(SplitOn(q, Amp), LAMBDA x : x # <<>>)
    IN [i \in 1..Len(parts) |-> ParsePair(parts[i])]

\* URLSearchParams serialisation: k=v joined by &
RECURSIVE SerializeParams(_)
SerializeParams(ps) ==
    IF ps = <<>> THEN <<>>
    ELSE Txt(ps[1][1]) \o <<EqSign>> \o Txt(ps[1][2])
            \o (IF Len(ps) = 1 THEN <<>> ELSE <<Amp>> \o SerializeParams(Tail(ps)))

\* pathname setter: the path of an http(s) URL always starts with "/"
SetPathname(p) == IF p = <<>> \/ p[1] # Slash THEN <<Slash>> \o p ELSE p

\* new URL(raw)
NewURL(raw) ==
    LET rest == Tail(raw)
        q == IndexOf(rest, QMark)
        pathPart == IF q = 0 THEN rest ELSE SubSeq(rest, 1, q - 1)
        queryPart == IF q = 0 THEN <<>> ELSE SubSeq(rest, q + 1, Len(rest))
    IN [origin |-> raw[1],
        pathname |-> SetPathname(pathPart),
        params |-> ParseQuery(queryPart)]

\* u.toString()
UrlToString(u) ==
    <<u.origin>> \o u.pathname
        \o (IF u.params = <<>> THEN <<>> ELSE <<QMark>> \o SerializeParams(u.params))

(***************************************************************************)
(* stripLocale, normalizeUrl, canonicalProductUrl                          *)
(***************************************************************************)
\* [a-z]{2}(?:-[a-z]{2})? with the i flag, on one text
IsLocaleText(t) ==
    \/ Len(t) = 2 /\ t[1] \in Letters /\ t[2] \in Letters
    \/ /\ Len(t) = 5
       /\ t[1] \in Letters /\ t[2] \in Letters
       /\ t[3] = "-"
       /\ t[4] \in Letters /\ t[5] \in Letters

\* pathname.replace(/^\/[a-z]{2}(?:-[a-z]{2})?\//i, "/")
ReplaceLeadingLocale(p) ==
    IF Len(p) >= 3 /\ p[1] = Slash /\ p[2] \notin Delims /\ IsLocaleText(p[2]) /\ p[3] = Slash
    THEN SubSeq(p, 3, Len(p))
    ELSE p

stripLocale(raw) ==
    LET u == NewURL(raw)
    IN UrlToString([u EXCEPT !.pathname = SetPathname(ReplaceLeadingLocale(u.pathname))])

\* pathname.replace(/\/+$/, "")
RECURSIVE StripTrailingSlashes(_)
StripTrailingSlashes(p) ==
    IF p # <<>> /\ p[Len(p)] = Slash
    THEN StripTrailingSlashes(SubSeq(p, 1, Len(p) - 1))
    ELSE p

K_utm_source == <<"u", "t", "m", "_", "s", "o", "u", "r", "c", "e">>
K_utm_medium == <<"u", "t", "m", "_", "m", "e", "d", "i", "u", "m">>
K_utm_campaign == <<"u", "t", "m", "_", "c", "a", "m", "p", "a", "i", "g", "n">>
K_utm_term == <<"u", "t", "m", "_", "t", "e", "r", "m">>
K_utm_content == <<"u", "t", "m", "_", "c", "o", "n", "t", "e", "n", "t">>
K_fbclid == <<"f", "b", "c", "l", "i", "d">>
K_gclid == <<"g", "c", "l", "i", "d">>

\* The keys normalizeUrl deletes.
TrackingKeys ==
    {K_utm_source, K_utm_medium, K_utm_campaign, K_utm_term, K_utm_content, K_fbclid, K_gclid}

\* [...].forEach((k) => u.searchParams.delete(k))
DeleteTracking(ps) == SelectSeq(ps, LAMBDA kv : kv[1] \notin TrackingKeys)

\* Insertion of kv behind every pair whose key does not compare greater.
InsertByKey(sorted, kv) ==
    LET n == Cardinality({i \in 1..Len(sorted) : localeCompare(sorted[i][1], kv[1]) <= 0})
    IN SubSeq(sorted, 1, n) \o <<kv>> \o SubSeq(sorted, n + 1, Len(sorted))

\* Array.from(entries()).sort(([a], [b]) => a.localeCompare(b)): stable, by key
RECURSIVE SortByKey(_)
SortByKey(ps) ==
    IF ps = <<>> THEN <<>>
    ELSE InsertByKey(SortByKey(SubSeq(ps, 1, Len(ps) - 1)), ps[Len(ps)])

normalizeUrl(raw) ==
    LET cleaned == stripLocale(raw)
        u == NewURL(cleaned)
        kept == DeleteTracking(u.params)
        path == SetPathname(StripTrailingSlashes(u.pathname))
        params == SortByKey(kept)
    IN UrlToString([origin |-> u.origin, pathname |-> path, params |-> params])

canonicalProductUrlKeepsQuery(raw) == normalizeUrl(raw)
canonicalProductUrl(raw) ==
    LET u == NewURL(normalizeUrl(raw))
    IN UrlToString([u EXCEPT !.params = <<>>])

(***************************************************************************)
(* The URLs the normaliser is applied to                                   *)
(***************************************************************************)
MaxPathLen == 3
MaxQueryLen == 2

T_en == <<"e", "n">>
T_frCA == <<"F", "R", "-", "c", "a">>
T_x == <<"x">>
T_a == <<"a">>
T_b == <<"b">>
T_1 == <<"1">>
T_2 == <<"2">>
K_utm_id == <<"u", "t", "m", "_", "i", "d">>

\* Path segments: empty (a doubled or trailing slash), a locale-shaped text,
\* one that is not.
Segments == {<<>>, T_en, T_x}
\* The locale segments put in front of a path: /en/ and /FR-ca/.
LocaleSegments == {T_en, T_frCA}

QueryPairs ==
    {<<T_a, T_1>>, <<T_a, T_2>>, <<T_b, T_1>>,
     <<K_utm_source, T_1>>, <<K_utm_id, T_1>>}

SeqsUpTo(S, lo, hi) == UNION {[1..n -> S] : n \in lo..hi}

RECURSIVE PathnameOf(_)
PathnameOf(segs) ==
    IF segs = <<>> THEN <<>>
    ELSE <<Slash>> \o Txt(Head(segs)) \o PathnameOf(Tail(segs))

UrlStrings ==
    {UrlToString([origin |-> Origin, pathname |-> PathnameOf(segs), params |-> ps]) :
        segs \in SeqsUpTo(Segments, 1, MaxPathLen),
        ps \in SeqsUpTo(QueryPairs, 0, MaxQueryLen)}

\* A tracking key as the specification names them: utm_*, fbclid, gclid.
IsTrackingKey(k) ==
    \/ k \in {K_fbclid, K_gclid}
    \/ Len(k) >= 4 /\ SubSeq(k, 1, 4) = <<"u", "t", "m", "_">>

NoString == <<>>

UrlIdle ==
    /\ uIn = NoString
    /\ uAlt = NoString
    /\ uRel = "same"
    /\ uStage = "idle"
    /\ outIn = NoString
    /\ outAlt = NoString
    /\ canIn = NoString
    /\ canAlt = NoString
    /\ outAgain = NoString

UrlInit ==
    /\ uIn \in UrlStrings
    /\ uAlt = uIn
    /\ uRel = "same"
    /\ uStage = "raw"
    /\ outIn = NoString
    /\ outAlt = NoString
    /\ canIn = NoString
    /\ canAlt = NoString
    /\ outAgain = NoString

\* What a step of the normaliser leaves alone.
UrlFrame == UNCHANGED <<fetchVars, scrapeVars, buildVars, upsertVars, walkVars, runVars, catVars, imgVars, overlapVars, seqVars>>

UrlVary(rel, alt) ==
    /\ uStage = "raw"
    /\ uRel = "same"
    /\ alt # uIn
    /\ uAlt' = alt
    /\ uRel' = rel
    /\ UNCHANGED <<uIn, uStage, outIn, outAlt, canIn, canAlt, outAgain>>
    /\ UrlFrame

\* The second URL is the first without its tracking parameters.
UrlDropTracking ==
    LET u == NewURL(uIn)
    IN UrlVary("tracking",
               UrlToString([u EXCEPT !.params = SelectSeq(u.params, LAMBDA kv : ~IsTrackingKey(kv[1]))]))

\* The second URL is the first behind a leading locale segment.
UrlAddLocale(seg) ==
    LET u == NewURL(uIn)
    IN UrlVary("locale", UrlToString([u EXCEPT !.pathname = <<Slash, seg>> \o u.pathname]))

\* The second URL is the first with its query pairs in another order.
UrlPermute(f) ==
    LET u == NewURL(uIn)
    IN /\ DOMAIN f = 1..Len(u.params)
       /\ UrlVary("perm", UrlToString([u EXCEPT !.params = [i \in 1..Len(u.params) |-> u.params[f[i]]]]))

\* The second URL is the first without its query string.
UrlDropQuery ==
    LET u == NewURL(uIn)
    IN UrlVary("query", UrlToString([u EXCEPT !.params = <<>>]))

\* normalizeUrl and canonicalProductUrl applied to both URLs
UrlNormalize ==
    /\ uStage = "raw"
    /\ outIn' = normalizeUrl(uIn)
    /\ outAlt' = normalizeUrl(uAlt)
    /\ canIn' = canonicalProductUrl(uIn)
    /\ canAlt' = canonicalProductUrl(uAlt)
    /\ uStage' = "normalized"
    /\ UNCHANGED <<uIn, uAlt, uRel, outAgain>>
    /\ UrlFrame

\* normalizeUrl applied to its own result
UrlRenormalize ==
    /\ uStage = "normalized"
    /\ outAgain' = normalizeUrl(outIn)
    /\ uStage' = "renormalized"
    /\ UNCHANGED <<uIn, uAlt, uRel, outIn, outAlt, canIn, canAlt>>
    /\ UrlFrame

UrlNext ==
    \/ UrlDropTracking
    \/ \E seg \in LocaleSegments : UrlAddLocale(seg)
    \/ \E f \in UNION {Permutations(1..n) : n \in 2..(MaxQueryLen + 1)} : UrlPermute(f)
    \/ UrlDropQuery
    \/ UrlNormalize
    \/ UrlRenormalize

(***************************************************************************)
(* Text helpers of the listing builders                                    *)
(***************************************************************************)
LowerSeq ==
    <<"a", "b", "c", "d", "e", "f", "g", "h", "i", "j", "k", "l", "m",
      "n", "o", "p", "q", "r", "s", "t", "u", "v", "w", "x", "y", "z">>
UpperSeq ==
    <<"A", "B", "C", "D", "E", "F", "G", "H", "I", "J", "K", "L", "M",
      "N", "O", "P", "Q", "R", "S", "T", "U", "V", "W", "X", "Y", "Z">>

ToLowerChar(c) ==
    IF c \in UpperLetters THEN LowerSeq[CHOOSE i \in 1..26 : UpperSeq[i] = c] ELSE c

\* s.toLowerCase()
toLowerCase(s) == [i \in 1..Len(s) |-> ToLowerChar(s[i])]

\* s.includes(sub)
includes(s, sub) ==
    \E i \in 0..(Len(s) - Len(sub)) : SubSeq(s, i + 1, i + Len(sub)) = sub

\* s.replace(/\s+/g, " "): every run of spaces becomes one space
RECURSIVE CollapseSpaces(_)
CollapseSpaces(s) ==
    IF Len(s) <= 1 THEN s
    ELSE IF s[1] = " " /\ s[2] = " " THEN CollapseSpaces(Tail(s))
    ELSE <<s[1]>> \o CollapseSpaces(Tail(s))

\* s.trim()
RECURSIVE trim(_)
trim(s) ==
    IF s # <<>> /\ s[1] = " " THEN trim(Tail(s))
    ELSE IF s # <<>> /\ s[Len(s)] = " " THEN trim(SubSeq(s, 1, Len(s) - 1))
    ELSE s

\* const norm = (s = "") => (s || "").replace(/\s+/g, " ").trim()
norm(s) == trim(CollapseSpaces(s))

(***************************************************************************)
(* Numbers and prices                                                      *)
(*                                                                         *)
(* Amounts are integers.  The cents of the model are multiples of 100 and  *)
(* its price texts carry no cents, so v.price / 100 and Number("30.00")    *)
(* are exact.  Infinity stands for the IEEE value the JSON number 1e999    *)
(* parses to; it is larger than every finite amount.                       *)
(***************************************************************************)
Infinity == 999999999
IsFinite(n) == n # Infinity

Digits == <<"0", "1", "2", "3", "4", "5", "6", "7", "8", "9">>
IsDigit(c) == \E i \in 1..10 : Digits[i] = c
DigitVal(c) == (CHOOSE i \in 1..10 : Digits[i] = c) - 1

RECURSIVE DigitsValue(_)
DigitsValue(ds) ==
    IF ds = <<>> THEN 0 ELSE 10 * DigitsValue(SubSeq(ds, 1, Len(ds) - 1)) + DigitVal(ds[Len(ds)])

\* Number(t) for a text of digits and dots (null: NaN, for two dots or no
\* digit); the digits behind the dot are zeros in every text of the model.
NumberOfDecimal(t) ==
    LET dots == {i \in 1..Len(t) : t[i] = "."}
    IN IF Cardinality(dots) > 1 \/ Cardinality(dots) = Len(t) THEN Null
       ELSE IF dots = {} THEN Some(DigitsValue(t))
       ELSE LET d == CHOOSE i \in dots : TRUE
            IN Some(DigitsValue(SubSeq(t, 1, d - 1)))

\* n / 100
Div100(n) == IF IsFinite(n) THEN n \div 100 ELSE n

\* priceNum: strip spaces, commas to dots, keep digits and dots, Number()
priceNum(s) ==
    LET noSpace == SelectSeq(s, LAMBDA c : c # " ")
        dotted == [i \in 1..Len(noSpace) |-> IF noSpace[i] = "," THEN "." ELSE noSpace[i]]
        t == SelectSeq(dotted, LAMBDA c : IsDigit(c) \/ c = ".")
    IN IF t = <<>> THEN Null ELSE NumberOfDecimal(t)

safePrice(n) ==
    IF IsNull(n) THEN Null
    ELSE IF ~IsFinite(Val(n)) THEN Null
    ELSE IF Val(n) <= 0 THEN Null
    ELSE n

\* sale ?? price
effectivePrice(price, sale) == IF ~IsNull(sale) THEN sale ELSE price

(***************************************************************************)
(* enforceTorch                                                            *)
(***************************************************************************)
S_wysiwyg == <<"w", "y", "s", "i", "w", "y", "g">>
S_torch == <<"t", "o", "r", "c", "h">>
S_torche == <<"t", "o", "r", "c", "h", "e">>
S_glabrescens == <<"g", "l", "a", "b", "r", "e", "s", "c", "e", "n", "s">>
S_defaultTitle == <<"d", "e", "f", "a", "u", "l", "t", " ", "t", "i", "t", "l", "e">>
S_Untitled == <<"U", "n", "t", "i", "t", "l", "e", "d">>
\* " \u2014 ": the element "--" stands for the one character U+2014
S_dash == <<" ", "--", " ">>

isWysiwyg(t) == includes(toLowerCase(t), S_wysiwyg)

enforceTorchNoDefault(listing) ==
    IF listing.category # "torch" THEN listing
    ELSE IF isWysiwyg(listing.title_raw) THEN [listing EXCEPT !.sale_mode = Some("wysiwyg")]
    ELSE listing
enforceTorch(listing) ==
    IF listing.category # "torch" THEN listing
    ELSE IF isWysiwyg(listing.title_raw) THEN [listing EXCEPT !.sale_mode = Some("wysiwyg")]
    ELSE [listing EXCEPT !.sale_mode = Some("per_unit"), !.unit_type = Some("head")]

(***************************************************************************)
(* Listings                                                                *)
(***************************************************************************)
Listing(shop_id, category, title_raw, url, image_url, price_cad, sale_price_cad, status, variant) ==
    [shop_id |-> shop_id, category |-> category, title_raw |-> title_raw,
     url |-> url, image_url |-> image_url,
     price_cad |-> price_cad, sale_price_cad |-> sale_price_cad,
     status |-> status, variant |-> variant,
     sale_mode |-> Null, unit_type |-> Null, unit_count |-> Null]

\* The scoring of one variant, the same in the three builders: price and
\* compare are the variant's price and compare-at price as numbers or null.
ScoreVariant(v, price, compare, available) ==
    LET onSale == ~IsNull(compare) /\ ~IsNull(price) /\ Val(compare) > Val(price)
        price_cad == IF onSale THEN compare ELSE price
        sale_price_cad == IF onSale THEN price ELSE Null
        eff == effectivePrice(price_cad, sale_price_cad)
    IN [v |-> v,
        price_cad |-> safePrice(price_cad),
        sale_price_cad |-> safePrice(sale_price_cad),
        eff |-> safePrice(eff),
        available |-> available]

\* typeof v?.price === "number" ? v.price / 100 : null (and compare_at_price)
ScoreJsVariant(v) ==
    ScoreVariant(v,
        IF IsNull(v.price) THEN Null ELSE Some(Div100(Val(v.price))),
        IF IsNull(v.compare_at_price) THEN Null ELSE Some(Div100(Val(v.compare_at_price))),
        v.available = TRUE)

\* v?.price != null ? priceNum(String(v.price)) : null; available: true
ScoreCatalogVariant(v) ==
    ScoreVariant(v,
        IF IsNull(v.price) THEN Null ELSE priceNum(Val(v.price)),
        IF IsNull(v.compare_at_price) THEN Null ELSE priceNum(Val(v.compare_at_price)),
        TRUE)

\* Insertion of x behind every element whose eff is not greater.
InsertByEff(sorted, x) ==
    LET n == Cardinality({i \in 1..Len(sorted) : Val(sorted[i].eff) - Val(x.eff) <= 0})
    IN SubSeq(sorted, 1, n) \o <<x>> \o SubSeq(sorted, n + 1, Len(sorted))

\* pool.sort((a, b) => a.eff! - b.eff!): stable
RECURSIVE SortByEff(_)
SortByEff(pool) ==
    IF pool = <<>> THEN <<>>
    ELSE InsertByEff(SortByEff(SubSeq(pool, 1, Len(pool) - 1)), pool[Len(pool)])

PoolOfAnyAvailability(scored) == SelectSeq(scored, LAMBDA x : ~IsNull(x.eff))
\* availablePool.length ? availablePool : scored.filter((x) => x.eff != null)
PoolOf(scored) ==
    LET availablePool == SelectSeq(scored, LAMBDA x : x.available /\ ~IsNull(x.eff))
    IN IF availablePool # <<>> THEN availablePool
       ELSE SelectSeq(scored, LAMBDA x : ~IsNull(x.eff))

\* best.v?.title && String(best.v.title).toLowerCase() !== "default title" ? ... : null
VariantTitleOf(v) ==
    IF ~IsNull(v.title) /\ Val(v.title) # <<>> /\ toLowerCase(Val(v.title)) # S_defaultTitle
    THEN v.title
    ELSE Null

\* variantTitle ? `${titleBase} -- ${variantTitle}` : titleBase
TitleRaw(titleBase, variantTitle) ==
    IF ~IsNull(variantTitle) THEN titleBase \o S_dash \o Val(variantTitle) ELSE titleBase

\* norm(product?.title || "Untitled")
TitleBase(title) ==
    norm(IF IsNull(title) \/ Val(title) = <<>> THEN S_Untitled ELSE Val(title))

\* a || b || c || null over nullable texts
FirstTruthy(cands) ==
    LET ok == SelectSeq(cands, LAMBDA c : ~IsNull(c) /\ Val(c) # <<>>)
    IN IF ok = <<>> THEN Null ELSE ok[1]

StatusOfAlwaysAvailable(available) == "available"
\* status: best.available ? "available" : "sold_out"
StatusOf(available) == IF available THEN "available" ELSE "sold_out"

\* The object buildSingleShopifyListing hands to enforceTorch (null: the early
\* returns).
SingleShopifyFields(productUrl, product, shop_id, category) ==
    LET titleBase == TitleBase(product.title)
        url == canonicalProductUrl(productUrl)
        variants == product.variants
        scored == [i \in 1..Len(variants) |-> ScoreJsVariant(variants[i])]
        pool == PoolOf(scored)
        best == SortByEff(pool)[1]
        variantTitle == VariantTitleOf(best.v)
    IN IF variants = <<>> THEN Null
       ELSE IF pool = <<>> THEN Null
       ELSE Some(Listing(
                shop_id, category, TitleRaw(titleBase, variantTitle), Some(url),
                FirstTruthy(<<best.v.featured_image, product.featured_image, product.image0>>),
                best.price_cad, best.sale_price_cad,
                StatusOf(best.available),
                variantTitle))

\* return enforceTorch({...}) behind the early returns
ThroughTorch(fields) == IF IsNull(fields) THEN Null ELSE Some(enforceTorch(Val(fields)))

buildSingleShopifyListing(productUrl, product, shop_id, category) ==
    ThroughTorch(SingleShopifyFields(productUrl, product, shop_id, category))

\* tags.some((t) => t.includes(word)) over the lower-cased tags
TagsInclude(tags, word) == \E i \in 1..Len(tags) : includes(toLowerCase(tags[i]), word)

productLooksTorch(p) ==
    LET title == toLowerCase(IF IsNull(p.title) THEN <<>> ELSE Val(p.title))
    IN \/ includes(title, S_torch) \/ includes(title, S_torche)
       \/ TagsInclude(p.tags, S_torch)
       \/ includes(title, S_glabrescens)
       \/ TagsInclude(p.tags, S_glabrescens)

S_products == <<"p", "r", "o", "d", "u", "c", "t", "s">>

\* `${origin}/products/${handle}`
CatalogProductUrl(origin, handle) == <<origin, Slash, S_products, Slash, handle>>

\* The object buildSingleShopifyListingFromProductsJson hands to enforceTorch.
ProductsJsonFields(origin, p, shop_id, fallbackCategory) ==
    LET titleBase == TitleBase(p.title)
        handle == trim(p.handle)
        url == canonicalProductUrl(CatalogProductUrl(origin, handle))
        variants == p.variants
        scored == [i \in 1..Len(variants) |-> ScoreCatalogVariant(variants[i])]
        pool == SelectSeq(scored, LAMBDA x : ~IsNull(x.eff))
        best == SortByEff(pool)[1]
        variantTitle == VariantTitleOf(best.v)
        category == IF productLooksTorch(p) THEN "torch" ELSE fallbackCategory
    IN IF handle = <<>> THEN Null
       ELSE IF variants = <<>> THEN Null
       ELSE IF pool = <<>> THEN Null
       ELSE Some(Listing(
                shop_id, category, TitleRaw(titleBase, variantTitle), Some(url),
                FirstTruthy(<<p.image_src, p.image0_src>>),
                best.price_cad, best.sale_price_cad,
                "available",
                variantTitle))

buildSingleShopifyListingFromProductsJson(origin, p, shop_id, fallbackCategory) ==
    ThroughTorch(ProductsJsonFields(origin, p, shop_id, fallbackCategory))

(***************************************************************************)
(* HTML extraction.  A page is what the cheerio queries of the parser      *)
(* return on it: the texts of the selected nodes and attributes.           *)
(***************************************************************************)
\* a || b || "Untitled" over normalised texts
FirstText(cands) ==
    LET ok == SelectSeq(cands, LAMBDA c : c # <<>>)
    IN IF ok = <<>> THEN S_Untitled ELSE ok[1]

\* s ? priceNum(s) : null
PriceNumIfAny(s) == IF IsNull(s) \/ Val(s) = <<>> THEN Null ELSE priceNum(Val(s))

\* The JSON-LD loop: the first offers.price that priceNum reads sets ldPrice.
LdPrice(prices) ==
    LET read == SelectSeq([i \in 1..Len(prices) |-> priceNum(prices[i])], LAMBDA x : ~IsNull(x))
    IN IF read = <<>> THEN Null ELSE read[1]

\* a ?? b ?? c ?? null
FirstNonNull(cands) ==
    LET ok == SelectSeq(cands, LAMBDA c : ~IsNull(c))
    IN IF ok = <<>> THEN Null ELSE ok[1]

parseShopifyHtmlFallback(page) ==
    LET title == FirstText(<<norm(page.h1), norm(page.docTitle)>>)
        imageUrl == FirstTruthy(<<page.ogImage, page.ogImageName>>)
        variants == IF IsNull(page.analytics) THEN <<>> ELSE Val(page.analytics).variants
        scored == [i \in 1..Len(variants) |-> ScoreJsVariant(variants[i])]
        pool == PoolOf(scored)
        best == SortByEff(pool)[1]
        pMeta == PriceNumIfAny(page.metaPrice)
        ldPrice == LdPrice(page.ldPrices)
        pText == PriceNumIfAny(Some(norm(page.textPrice)))
    IN IF variants # <<>> /\ pool # <<>>
       THEN [title |-> title, imageUrl |-> imageUrl,
             price_cad |-> best.price_cad, sale_price_cad |-> best.sale_price_cad,
             status |-> IF best.available THEN "available" ELSE "sold_out",
             variantTitle |-> VariantTitleOf(best.v)]
       ELSE [title |-> title, imageUrl |-> imageUrl,
             price_cad |-> safePrice(FirstNonNull(<<pMeta, ldPrice, pText>>)),
             sale_price_cad |-> Null,
             status |-> IF page.saysSoldOut THEN "sold_out" ELSE "available",
             variantTitle |-> Null]

\* The object scrapeSource hands to enforceTorch in its Shopify HTML branch.
ShopifyHtmlFields(url, page, shop_id, category) ==
    LET fb == parseShopifyHtmlFallback(page)
    IN Some(Listing(
            shop_id, category, TitleRaw(fb.title, fb.variantTitle),
            Some(canonicalProductUrl(url)), fb.imageUrl,
            safePrice(fb.price_cad), safePrice(fb.sale_price_cad),
            fb.status, fb.variantTitle))

Truthy(n) == ~IsNull(n) /\ Val(n) # 0

\* The object parseHtmlProduct hands to enforceTorch.
HtmlProductFields(urlRaw, page, shop_id, category) ==
    LET title == FirstText(<<norm(page.productTitle), norm(page.h1), norm(page.docTitle)>>)
        sale == priceNum(norm(page.saleText))
        regular == priceNum(norm(page.regularText))
        single == priceNum(norm(page.singleText))
        onSale == Truthy(regular) /\ Truthy(sale) /\ Val(regular) > Val(sale)
        price_cad == IF onSale THEN regular ELSE FirstNonNull(<<sale, single, regular>>)
        sale_price_cad == IF onSale THEN sale ELSE Null
    IN Some(Listing(
            shop_id, category, title, Some(normalizeUrl(urlRaw)), page.imageUrl,
            safePrice(price_cad), safePrice(sale_price_cad),
            IF page.saysOutOfStock THEN "sold_out" ELSE "available",
            Null))

parseHtmlProduct(urlRaw, page, shop_id, category) ==
    ThroughTorch(HtmlProductFields(urlRaw, page, shop_id, category))

(***************************************************************************)
(* The store and upsertIfValid                                             *)
(***************************************************************************)
StoreInsert(rows, l) == rows \cup {l}
\* upsert(l, { onConflict: "shop_id,url" })
StoreUpsert(rows, l) ==
    {r \in rows : ~(r.shop_id = l.shop_id /\ r.url = l.url)} \cup {l}

\* A url of blanks only, as a string of tokens.
BlankUrl == <<<<" ">>>>

\* String(l.url).trim() on a url
RECURSIVE trimUrl(_)
trimUrl(u) ==
    IF u # <<>> /\ u[1] = <<" ">> THEN trimUrl(Tail(u))
    ELSE IF u # <<>> /\ u[Len(u)] = <<" ">> THEN trimUrl(SubSeq(u, 1, Len(u) - 1))
    ELSE u

IsValidListingZeroPriceToo(l) ==
    /\ ~IsNull(l)
    /\ ~IsNull(Val(l).shop_id) /\ trim(Val(l).shop_id) # <<>>
    /\ ~IsNull(Val(l).url) /\ trimUrl(Val(l).url) # <<>>
    /\ ~IsNull(Val(l).price_cad) /\ Val(Val(l).price_cad) >= 0
\* The tests of upsertIfValid in front of the upsert; a null or empty
\* shop_id or url is the empty sequence.
IsValidListing(l) ==
    /\ ~IsNull(l)
    /\ ~IsNull(Val(l).shop_id) /\ trim(Val(l).shop_id) # <<>>
    /\ ~IsNull(Val(l).url) /\ trimUrl(Val(l).url) # <<>>
    /\ Truthy(Val(l).price_cad) /\ Val(Val(l).price_cad) > 0


(***************************************************************************)
(* scrapeSource: routing, link discovery and the visit of each item        *)
(***************************************************************************)
ReefOrigin == <<"https://www.ReefSolution.com">>
\* The origins whose hostname, lower-cased, includes "reefsolution.com".
ReefOrigins == {ReefOrigin}

isReefSolutionSource(s) == NewURL(s.url).origin \in ReefOrigins

S_product == <<"p", "r", "o", "d", "u", "c", "t">>
S_produit == <<"p", "r", "o", "d", "u", "i", "t">>

\* p.toLowerCase() on a pathname
LowerPath(p) == [i \in 1..Len(p) |-> toLowerCase(p[i])]

\* p.includes("/products/") || p.includes("/product/") || p.includes("/produit/")
IsProductPath(p) ==
    \E seg \in {S_products, S_product, S_produit} : includes(LowerPath(p), <<Slash, seg, Slash>>)

\* The array without the elements that occur earlier in it (a Set's order).
RECURSIVE Dedup(_)
Dedup(q) ==
    IF q = <<>> THEN <<>>
    ELSE LET front == Dedup(SubSeq(q, 1, Len(q) - 1))
         IN IF \E i \in 1..Len(front) : front[i] = q[Len(q)] THEN front
            ELSE Append(front, q[Len(q)])

\* extractProductLinks on the anchors of one page, resolved against the page
extractProductLinks(hrefs) ==
    LET kept == SelectSeq(hrefs, LAMBDA h : IsProductPath(NewURL(h).pathname))
    IN Dedup([i \in 1..Len(kept) |-> normalizeUrl(kept[i])])

\* extractLinksWithPagination: hrefs are the anchors of the pages walked, in
\* the order of the walk; every link of a page is normalised once more when
\* it joins the accumulated set.
extractLinksWithPagination(hrefs) ==
    LET pageLinks == extractProductLinks(hrefs)
    IN Dedup([i \in 1..Len(pageLinks) |-> normalizeUrl(pageLinks[i])])

\* u.pathname.match(/\/products\/([^/]+)/): the handle, or null
RECURSIVE HandleIn(_)
HandleIn(p) ==
    IF Len(p) < 4 THEN Null
    ELSE IF p[1] = Slash /\ p[2] = S_products /\ p[3] = Slash /\ p[4] \notin Delims
         THEN Some(p[4])
         ELSE HandleIn(Tail(p))

\* fetchShopifyProduct asks for a product only when the path names a handle.
AsksShopifyProduct(url) == ~IsNull(HandleIn(NewURL(url).pathname))

upsertIfAbsent(rows, l) ==
    IF ~IsValidListing(l) THEN [rows |-> rows, result |-> FALSE]
    ELSE IF \E r \in rows : r.shop_id = Val(l).shop_id /\ r.url = Val(l).url
    THEN [rows |-> rows, result |-> TRUE]
    ELSE [rows |-> rows \cup {Val(l)}, result |-> TRUE]
\* upsertIfValid(l): the rows afterwards and the value returned.
upsertIfValid(rows, l) ==
    IF ~IsValidListing(l) THEN [rows |-> rows, result |-> FALSE]
    ELSE [rows |-> StoreUpsert(rows, Val(l)), result |-> TRUE]

(***************************************************************************)
(* The inputs of the scrape: sources, product JSON, pages, anchors         *)
(***************************************************************************)
MaxVariants == 2
MaxLinks == 2
MaxProducts == 2

S_shop == <<"s", "1">>
S_blank == <<" ">>
T_L == <<"L">>
T_A == <<"A", " ", " ", "c", "o", "r", "a", "l">>
T_Wysiwyg == <<"W", "y", "S", "I", "w", "y", "g", " ", "7">>
T_Torch == <<"G", "o", "l", "d", " ", "T", "O", "R", "C", "H">>
T_DefaultTitle == <<"D", "e", "f", "a", "u", "l", "t", " ", "T", "i", "t", "l", "e">>
T_Glabrescens == <<"G", "l", "a", "b", "r", "e", "s", "c", "e", "n", "s">>

Sources ==
    {[url |-> <<o, Slash, T_x>>, shop_id |-> s, category |-> c] :
        o \in {Origin, ReefOrigin}, s \in {S_shop, S_blank}, c \in {"torch", "zoa"}}
    \cup {[url |-> <<>>, shop_id |-> s, category |-> "zoa"] : s \in {S_shop, S_blank}}

ProductTitles == {Some(T_A), Some(T_Wysiwyg)}

\* Variants of /products/<handle>.js and of ShopifyAnalytics.meta: amounts in
\* cents; 1e999 in the JSON text is the number Infinity.
JsVariant(title, price, compare, available) ==
    [title |-> title, price |-> price, compare_at_price |-> compare,
     available |-> available, featured_image |-> Null]

JsVariants ==
    {JsVariant(Some(T_DefaultTitle), Some(2500), Null, TRUE),
     JsVariant(Some(T_L), Some(2000), Some(3000), TRUE),
     JsVariant(Some(T_L), Some(1500), Some(Infinity), FALSE)}

JsProducts ==
    {[title |-> Some(T_A), variants |-> vs, featured_image |-> Null, image0 |-> Null] :
        vs \in SeqsUpTo(JsVariants, 0, MaxVariants)}
    \cup
    {[title |-> Some(T_Wysiwyg), variants |-> <<v>>, featured_image |-> Null, image0 |-> Null] :
        v \in JsVariants}

\* Variants of /products.json: amounts as decimal texts.
CatalogVariants ==
    {[title |-> Some(T_DefaultTitle), price |-> Some(<<"2", "5", ".", "0", "0">>), compare_at_price |-> Null],
     [title |-> Some(T_L), price |-> Some(<<"2", "0", ".", "0", "0">>), compare_at_price |-> Some(<<"3", "0", ".", "0", "0">>)],
     [title |-> Null, price |-> Some(<<"0", ".", "0", "0">>), compare_at_price |-> Null]}

\* (title, tags, handle) of the catalog products
CatalogHeads ==
    {<<Some(T_Torch), <<>>, T_x>>,
     <<Some(T_Wysiwyg), <<T_Glabrescens>>, T_x>>,
     <<Some(T_A), <<>>, T_x>>,
     <<Some(T_A), <<>>, S_blank>>}

CatalogProducts ==
    {[title |-> h[1], tags |-> h[2], handle |-> h[3], variants |-> vs,
      image_src |-> Null, image0_src |-> Null] :
        h \in CatalogHeads, vs \in SeqsUpTo(CatalogVariants, 0, MaxVariants)}

\* (meta price, JSON-LD prices, price text) of a page without analytics
PlainPriceSources ==
    {<<Null, <<>>, <<>> >>,
     <<Some(<<"2", "5", ".", "0", "0">>), << <<"3", "0">> >>, <<>> >>,
     <<Null, << <<"n", "/", "a">>, <<"3", "0">> >>, <<"$", " ", "2", "0">> >>,
     <<Some(<<"0">>), <<>>, <<"$", " ", "2", "0">> >>}

\* Shopify product pages: with ShopifyAnalytics.meta, or with the price in
\* meta tags, JSON-LD or text.
ShopifyPages ==
    {[h1 |-> T_A, docTitle |-> <<>>, ogImage |-> Null, ogImageName |-> Null,
      analytics |-> Some([variants |-> vs]),
      metaPrice |-> Null, ldPrices |-> <<>>, textPrice |-> <<>>, saysSoldOut |-> FALSE] :
        vs \in {<<>>} \cup {<<v>> : v \in JsVariants}}
    \cup
    {[h1 |-> Val(t), docTitle |-> <<>>, ogImage |-> Null, ogImageName |-> Null,
      analytics |-> Null,
      metaPrice |-> ps[1], ldPrices |-> ps[2], textPrice |-> ps[3], saysSoldOut |-> so] :
        t \in ProductTitles, ps \in PlainPriceSources, so \in BOOLEAN}

\* The (sale, regular, single) price texts of a WooCommerce page.
WooPriceTexts ==
    {<< <<"$", "2", "0", ".", "0", "0">>, <<"3", "0", ",", "0", "0", " ", "$">>, <<"3", "0", ",", "0", "0", " ", "$">> >>,
     << <<"$", "2", "0", ".", "0", "0">>, <<"$", "1", "0">>, <<"$", "1", "0">> >>,
     << <<>>, <<>>, <<"2", "0">> >>,
     << <<>>, <<>>, <<>> >>}

WooPages ==
    {[productTitle |-> Val(t), h1 |-> <<>>, docTitle |-> <<>>,
      saleText |-> pt[1], regularText |-> pt[2], singleText |-> pt[3],
      saysOutOfStock |-> oos, imageUrl |-> Null] :
        t \in ProductTitles, pt \in WooPriceTexts, oos \in BOOLEAN}

\* The anchors of a category page, resolved.
Hrefs ==
    {<<Origin, Slash, S_products, Slash, T_x>>,
     <<Origin, Slash, S_products, Slash, T_x, QMark, T_a, EqSign, T_1>>,
     <<Origin, Slash, T_a, Slash, S_products, Slash, T_x>>,
     <<Origin, Slash, S_product, Slash, T_x>>,
     <<Origin, Slash, S_product, Slash, T_x, QMark, T_a, EqSign, T_1>>,
     <<Origin, Slash, T_x>>}

(***************************************************************************)
(* scrapeSource as a state machine                                         *)
(***************************************************************************)
NoSource == [url |-> <<Origin>>, shop_id |-> <<>>, category |-> ""]

ScrapeIdle ==
    /\ spc = "idle"
    /\ src = NoSource
    /\ links = <<>>
    /\ left = 0
    /\ lpath = "none"
    /\ torchArg = Null
    /\ built = Null
    /\ accepted = FALSE
    /\ store = {}
    /\ found = 0
    /\ applied = 0
    /\ sret = Null

\* run() has emptied the table and calls scrapeSource(src).
ScrapeInit ==
    /\ spc = "start"
    /\ src \in Sources
    /\ links = <<>>
    /\ left = 0
    /\ lpath = "none"
    /\ torchArg = Null
    /\ built = Null
    /\ accepted = FALSE
    /\ store = {}
    /\ found = 0
    /\ applied = 0
    /\ sret = Null

ScrapeFrame == UNCHANGED <<fetchVars, urlVars, buildVars, upsertVars, walkVars, runVars, catVars, imgVars, overlapVars, seqVars>>

HasShopId == trim(src.shop_id) # <<>>

\* What scrapeSource returns: { source, found, error? }; source is a URL or an
\* origin and the note put behind it.
Report(url, note, n, error) ==
    [source |-> [url |-> url, note |-> note], found |-> n, error |-> error]

\* new URL(src.url) does not throw
UrlParses(raw) == raw # <<>>

\* if (!src.shop_id || String(src.shop_id).trim() === "") return { found: 0, error }
ScrapeMissingShop ==
    /\ spc = "start"
    /\ ~HasShopId
    /\ spc' = "done"
    /\ lpath' = "noshop"
    /\ sret' = Some(Report(src.url, "", 0, Some("Missing shop_id")))
    /\ UNCHANGED <<src, links, left, torchArg, built, accepted, store, found, applied>>
    /\ ScrapeFrame

\* new URL(src.url).origin throws: the catch of scrapeSource returns.
ScrapeBadUrl ==
    /\ spc = "start"
    /\ HasShopId
    /\ ~UrlParses(src.url)
    /\ spc' = "done"
    /\ lpath' = "badurl"
    /\ sret' = Some(Report(src.url, "", 0, Some("Invalid URL")))
    /\ UNCHANGED <<src, links, left, torchArg, built, accepted, store, found, applied>>
    /\ ScrapeFrame

\* scrapeReefSolutionCatalog up to its loop: n products were fetched.
ScrapeReefCatalog(n) ==
    /\ spc = "start"
    /\ HasShopId
    /\ UrlParses(src.url)
    /\ isReefSolutionSource(src)
    /\ spc' = "reef"
    /\ left' = n
    /\ UNCHANGED <<src, links, lpath, torchArg, built, accepted, store, found, applied, sret>>
    /\ ScrapeFrame

\* isShopifyOrigin answered true; scrapeShopifyCatalogGeneric up to its loop.
ScrapeShopifyCatalog(n) ==
    /\ spc = "start"
    /\ HasShopId
    /\ UrlParses(src.url)
    /\ ~isReefSolutionSource(src)
    /\ spc' = "catalog"
    /\ left' = n
    /\ UNCHANGED <<src, links, lpath, torchArg, built, accepted, store, found, applied, sret>>
    /\ ScrapeFrame

\* fetchShopifyCatalogProducts threw (a page of products.json failed): the
\* catch of scrapeSource returns.
ScrapeCatalogFails ==
    /\ spc = "start"
    /\ HasShopId
    /\ UrlParses(src.url)
    /\ spc' = "done"
    /\ lpath' = "catalogfail"
    /\ sret' = Some(Report(src.url, "", 0, Some("fetch failed")))
    /\ UNCHANGED <<src, links, left, torchArg, built, accepted, store, found, applied>>
    /\ ScrapeFrame

\* The origin answers no request: isShopifyOrigin catches and answers false,
\* extractLinksWithPagination catches both fetches of page 1 and breaks.
ScrapeUnreachable ==
    /\ spc = "start"
    /\ HasShopId
    /\ UrlParses(src.url)
    /\ ~isReefSolutionSource(src)
    /\ spc' = "links"
    /\ links' = <<>>
    /\ lpath' = "unreachable"
    /\ UNCHANGED <<src, left, torchArg, built, accepted, store, found, applied, sret>>
    /\ ScrapeFrame

\* isShopifyOrigin answered false; extractLinksWithPagination returned.
ScrapeDiscover(hrefs) ==
    /\ spc = "start"
    /\ HasShopId
    /\ UrlParses(src.url)
    /\ ~isReefSolutionSource(src)
    /\ spc' = "links"
    /\ links' = extractLinksWithPagination(hrefs)
    /\ UNCHANGED <<src, left, lpath, torchArg, built, accepted, store, found, applied, sret>>
    /\ ScrapeFrame

\* await supabase.from("listings").upsert(...) resolves to { error }: the store
\* applied the upsert (TRUE) or refused it (FALSE); the code looks at neither.
StoreAnswers == BOOLEAN

\* One pass of a loop body: the builder returns enforceTorch of its fields (or
\* null) and the listing goes to upsertIfValid.
Visit(path, fields) ==
    LET listing == ThroughTorch(fields)
        up == upsertIfValid(store, listing)
    IN /\ lpath' = path
       /\ torchArg' = fields
       /\ built' = listing
       /\ accepted' = up.result
       /\ found' = IF up.result THEN found + 1 ELSE found
       /\ \E storeOk \in StoreAnswers :
             /\ store' = IF storeOk THEN up.rows ELSE store
             /\ applied' = IF up.result /\ storeOk THEN applied + 1 ELSE applied

\* Loop body of scrapeReefSolutionCatalog: products that do not look torch
\* are passed over.
VisitReefProduct(p) ==
    /\ spc = "reef"
    /\ left > 0
    /\ left' = left - 1
    /\ IF productLooksTorch(p)
       THEN Visit("catalog",
                  ProductsJsonFields(NewURL(src.url).origin, p, src.shop_id, src.category))
       ELSE /\ lpath' = "skipped"
            /\ torchArg' = Null
            /\ built' = Null
            /\ accepted' = FALSE
            /\ UNCHANGED <<store, found, applied>>
    /\ UNCHANGED <<spc, src, links, sret>>
    /\ ScrapeFrame

\* Loop body of scrapeShopifyCatalogGeneric.
VisitCatalogProduct(p) ==
    /\ spc = "catalog"
    /\ left > 0
    /\ left' = left - 1
    /\ Visit("catalog",
             ProductsJsonFields(NewURL(src.url).origin, p, src.shop_id, src.category))
    /\ UNCHANGED <<spc, src, links, sret>>
    /\ ScrapeFrame

\* Loop body of scrapeSource, lines 1903-1911: /products/<handle>.js answered
\* with a product.
VisitShopifyLink(product) ==
    /\ spc = "links"
    /\ links # <<>>
    /\ LET url == normalizeUrl(Head(links))
       IN /\ AsksShopifyProduct(url)
          /\ Visit("single",
                   SingleShopifyFields(url, product, src.shop_id, src.category))
    /\ links' = Tail(links)
    /\ UNCHANGED <<spc, src, left, sret>>
    /\ ScrapeFrame

\* Lines 1915-1936: no product JSON (no handle in the path, or the request
\* failed) and the URL includes "/products/".
VisitShopifyHtmlLink(page) ==
    /\ spc = "links"
    /\ links # <<>>
    /\ LET url == normalizeUrl(Head(links))
           fields == ShopifyHtmlFields(url, page, src.shop_id, src.category)
       IN /\ includes(url, <<Slash, S_products, Slash>>)
          /\ Visit("html", fields)
    /\ links' = Tail(links)
    /\ UNCHANGED <<spc, src, left, sret>>
    /\ ScrapeFrame

\* Lines 1940-1944: every other link is parsed as a WooCommerce page.
VisitWooLink(page) ==
    /\ spc = "links"
    /\ links # <<>>
    /\ LET url == normalizeUrl(Head(links))
       IN /\ ~AsksShopifyProduct(url)
          /\ ~includes(url, <<Slash, S_products, Slash>>)
          /\ Visit("woo",
                   HtmlProductFields(url, page, src.shop_id, src.category))
    /\ links' = Tail(links)
    /\ UNCHANGED <<spc, src, left, sret>>
    /\ ScrapeFrame

\* fetchHtml threw: catch { /* ignore product */ }
VisitLinkFails ==
    /\ spc = "links"
    /\ links # <<>>
    /\ links' = Tail(links)
    /\ lpath' = "failed"
    /\ torchArg' = Null
    /\ built' = Null
    /\ accepted' = FALSE
    /\ UNCHANGED <<spc, src, left, store, found, applied, sret>>
    /\ ScrapeFrame

\* The loop is over: return { source, found }.  pages > 1 exactly when page 1
\* added a link.
ScrapeReturn ==
    /\ \/ spc \in {"reef", "catalog"} /\ left = 0
       \/ spc = "links" /\ links = <<>>
    /\ spc' = "done"
    /\ sret' = Some(Report(IF spc = "links" THEN src.url ELSE <<NewURL(src.url).origin>>,
                           IF spc = "reef" THEN " (catalog)"
                           ELSE IF spc = "catalog" THEN " (shopify catalog)"
                           ELSE IF lpath \in {"single", "html", "woo", "failed"}
                                THEN " (pages:n)" ELSE "",
                           found, Null))
    /\ UNCHANGED <<src, links, left, lpath, torchArg, built, accepted, store, found, applied>>
    /\ ScrapeFrame

ScrapeNext ==
    \/ ScrapeMissingShop
    \/ ScrapeBadUrl
    \/ \E n \in 0..MaxProducts : ScrapeReefCatalog(n)
    \/ \E n \in 0..MaxProducts : ScrapeShopifyCatalog(n)
    \/ ScrapeCatalogFails
    \/ ScrapeUnreachable
    \/ \E hrefs \in SeqsUpTo(Hrefs, 0, MaxLinks) : ScrapeDiscover(hrefs)
    \/ \E p \in CatalogProducts : VisitReefProduct(p)
    \/ \E p \in CatalogProducts : VisitCatalogProduct(p)
    \/ \E product \in JsProducts : VisitShopifyLink(product)
    \/ \E page \in ShopifyPages : VisitShopifyHtmlLink(page)
    \/ \E page \in WooPages : VisitWooLink(page)
    \/ VisitLinkFails
    \/ ScrapeReturn

(***************************************************************************)
(* The builders on their own: one product or page in, one listing out      *)
(***************************************************************************)
\* const best = pool[0] of buildSingleShopifyListing and of
\* parseShopifyHtmlFallback (null: the pool is empty)
BestJsVariant(variants) ==
    LET scored == [i \in 1..Len(variants) |-> ScoreJsVariant(variants[i])]
        pool == PoolOf(scored)
    IN IF pool = <<>> THEN Null ELSE Some(SortByEff(pool)[1])

\* const best = pool[0] of buildSingleShopifyListingFromProductsJson
BestCatalogVariant(variants) ==
    LET scored == [i \in 1..Len(variants) |-> ScoreCatalogVariant(variants[i])]
        pool == SelectSeq(scored, LAMBDA x : ~IsNull(x.eff))
    IN IF pool = <<>> THEN Null ELSE Some(SortByEff(pool)[1])

T_M == <<"M">>

\* The variants the builders are tried on: plain, on sale, unavailable, two of
\* one effective price, price 0, price missing, compare-at price 1e999.
BuildVariants ==
    {JsVariant(Some(T_DefaultTitle), Some(2500), Null, TRUE),
     JsVariant(Some(T_L), Some(3000), Some(4000), TRUE),
     JsVariant(Some(T_M), Some(2500), Null, FALSE),
     JsVariant(Some(T_L), Some(2500), Some(3000), TRUE),
     JsVariant(Null, Some(0), Some(3000), TRUE),
     JsVariant(Null, Null, Null, TRUE),
     JsVariant(Some(T_L), Some(1500), Some(Infinity), FALSE)}

BuildJsProducts ==
    {[title |-> Some(T_A), variants |-> vs, featured_image |-> Null, image0 |-> Null] :
        vs \in SeqsUpTo(BuildVariants, 0, MaxVariants)}

BuildPages ==
    {[h1 |-> T_A, docTitle |-> <<>>, ogImage |-> Null, ogImageName |-> Null,
      analytics |-> Some([variants |-> vs]),
      metaPrice |-> Null, ldPrices |-> <<>>, textPrice |-> <<>>, saysSoldOut |-> so] :
        vs \in SeqsUpTo(BuildVariants, 0, MaxVariants), so \in BOOLEAN}

\* The variants of /products.json with the availability flag the endpoint
\* reports on each.
BuildCatalogVariants ==
    {[title |-> v.title, price |-> v.price, compare_at_price |-> v.compare_at_price,
      available |-> a] : v \in CatalogVariants, a \in BOOLEAN}

BuildCatalogProducts ==
    {[title |-> h[1], tags |-> h[2], handle |-> h[3], variants |-> vs,
      image_src |-> Null, image0_src |-> Null] :
        h \in CatalogHeads, vs \in SeqsUpTo(BuildCatalogVariants, 0, MaxVariants)}

BuildUrl == <<Origin, Slash, S_products, Slash, T_x, QMark, T_a, EqSign, T_1>>

BuildIdle ==
    /\ bStage = "idle"
    /\ bKind = "none"
    /\ bIn = Null
    /\ bBest = Null
    /\ bOut = Null

BuildInit ==
    /\ bStage = "input"
    /\ \/ bKind = "js" /\ bIn \in BuildJsProducts
       \/ bKind = "html" /\ bIn \in BuildPages
       \/ bKind = "catalog" /\ bIn \in BuildCatalogProducts
    /\ bBest = Null
    /\ bOut = Null

BuildFrame == UNCHANGED <<fetchVars, urlVars, scrapeVars, upsertVars, walkVars, runVars, catVars, imgVars, overlapVars, seqVars>>

\* buildSingleShopifyListing(productUrl, product, shop_id, category)
BuildSingle(category) ==
    /\ bStage = "input"
    /\ bKind = "js"
    /\ bStage' = "built"
    /\ bBest' = (IF IsNull(BestJsVariant(bIn.variants)) THEN Null
                 ELSE Some(Val(BestJsVariant(bIn.variants)).v))
    /\ bOut' = buildSingleShopifyListing(BuildUrl, bIn, S_shop, category)
    /\ UNCHANGED <<bKind, bIn>>
    /\ BuildFrame

\* parseShopifyHtmlFallback(url, html) and the listing scrapeSource makes of it
BuildHtml(category) ==
    /\ bStage = "input"
    /\ bKind = "html"
    /\ bStage' = "built"
    /\ bBest' = (IF IsNull(BestJsVariant(Val(bIn.analytics).variants)) THEN Null
                 ELSE Some(Val(BestJsVariant(Val(bIn.analytics).variants)).v))
    /\ bOut' = ThroughTorch(ShopifyHtmlFields(BuildUrl, bIn, S_shop, category))
    /\ UNCHANGED <<bKind, bIn>>
    /\ BuildFrame

\* buildSingleShopifyListingFromProductsJson(origin, p, shop_id, fallbackCategory)
BuildCatalog(category) ==
    /\ bStage = "input"
    /\ bKind = "catalog"
    /\ bStage' = "built"
    /\ bBest' = (IF trim(bIn.handle) = <<>> \/ IsNull(BestCatalogVariant(bIn.variants)) THEN Null
                 ELSE Some(Val(BestCatalogVariant(bIn.variants)).v))
    /\ bOut' = buildSingleShopifyListingFromProductsJson(Origin, bIn, S_shop, category)
    /\ UNCHANGED <<bKind, bIn>>
    /\ BuildFrame

BuildNext ==
    \/ \E category \in {"torch", "zoa"} : BuildSingle(category)
    \/ \E category \in {"torch", "zoa"} : BuildHtml(category)
    \/ \E category \in {"torch", "zoa"} : BuildCatalog(category)

(***************************************************************************)
(* upsertIfValid on its own: any listing, several calls on one table       *)
(***************************************************************************)
MaxUpserts == 2

UpsertUrls ==
    {<<>>, BlankUrl,
     <<Origin, Slash, S_products, Slash, T_x>>,
     <<Origin, Slash, S_products, Slash, T_a>>}

\* The arguments upsertIfValid is tried on: null, and listings of every kind
\* of shop_id, url and price_cad.
UpsertArgs ==
    {Null} \cup
    {Some(Listing(sh, "zoa", T_A, u, Null, pr, Null, "available", Null)) :
        sh \in {S_shop, S_blank, <<>>},
        u \in UpsertUrls,
        pr \in {Null, Some(0), Some(0 - 5), Some(20), Some(30)}}

UpsertIdle ==
    /\ upStore = {}
    /\ upPrev = {}
    /\ upArg = Null
    /\ upRet = FALSE
    /\ upCalls = 0

UpsertInit == UpsertIdle

UpsertFrame == UNCHANGED <<fetchVars, urlVars, scrapeVars, buildVars, walkVars, runVars, catVars, imgVars, overlapVars, seqVars>>

\* await upsertIfValid(l)
UpsertCall(l) ==
    /\ upCalls < MaxUpserts
    /\ upCalls' = upCalls + 1
    /\ upArg' = l
    /\ upPrev' = upStore
    /\ upStore' = upsertIfValid(upStore, l).rows
    /\ upRet' = upsertIfValid(upStore, l).result
    /\ UpsertFrame

UpsertNext == \E l \in UpsertArgs : UpsertCall(l)

(***************************************************************************)
(* extractLinksWithPagination as a state machine: one step per page        *)
(***************************************************************************)
DefaultMaxPages == 80

\* maxPages: the value scrapeSource passes, and small ones
MaxPagesValues == {1, 2, 3, DefaultMaxPages}

K_paged == <<"p", "a", "g", "e", "d">>
S_page == <<"p", "a", "g", "e">>

\* String(n)
RECURSIVE StringOfNat(_)
StringOfNat(n) ==
    IF n < 10 THEN <<Digits[n + 1]>>
    ELSE StringOfNat(n \div 10) \o <<Digits[(n % 10) + 1]>>

makePagedUrl(base, n) ==
    LET u == NewURL(base)
        rest == SelectSeq(u.params, LAMBDA kv : kv[1] # K_paged)
        paged == Append(rest, <<K_paged, StringOfNat(n)>>)
    IN [withQuery |-> UrlToString([u EXCEPT !.params = paged]),
        withPath |-> normalizeUrl(<<u.origin>> \o StripTrailingSlashes(u.pathname)
                                    \o <<Slash, S_page, Slash, StringOfNat(n), Slash>>)]

\* for (const l of links) all.add(normalizeUrl(l))
RECURSIVE AddAll(_, _)
AddAll(all, ls) ==
    IF ls = <<>> THEN all
    ELSE AddAll(Dedup(Append(all, normalizeUrl(ls[1]))), Tail(ls))

WalkNeverStops(added) == FALSE
\* if (added === 0) break
WalkStops(added) == added = 0

\* The category pages walked: page n lists the product n, the product 1, a
\* link that is no product, or nothing.
ProductLink(n) == <<Origin, Slash, S_products, Slash, StringOfNat(n)>>

PageAnchors(n) ==
    {<<>>,
     <<ProductLink(n)>>,
     <<ProductLink(1)>>,
     <<<<Origin, Slash, T_x>>>>,
     <<ProductLink(1), ProductLink(n), <<Origin, Slash, T_x>>>>}

WalkStarts ==
    {<<Origin, Slash, T_x>>,
     <<Origin, Slash, T_x, Slash, QMark, K_paged, EqSign, T_2>>}

WalkIdle ==
    /\ wpc = "idle"
    /\ wStart = NoString
    /\ wMax = 0
    /\ wP = 0
    /\ wAll = <<>>
    /\ wPages = 0
    /\ wReq = <<>>
    /\ wLog = <<>>
    /\ wQueryOk = FALSE

\* const all = new Set(); let pages = 0; p = 1
WalkInit ==
    /\ wpc = "loop"
    /\ wStart \in WalkStarts
    /\ wMax \in MaxPagesValues
    /\ wP = 1
    /\ wAll = <<>>
    /\ wPages = 0
    /\ wReq = <<>>
    /\ wLog = <<>>
    /\ wQueryOk = FALSE

WalkFrame == UNCHANGED <<fetchVars, urlVars, scrapeVars, buildVars, upsertVars, runVars, catVars, imgVars, overlapVars, seqVars>>

PageRequestsBothForms(paged, queryOk) == <<paged.withQuery, paged.withPath>>
\* try { html = await fetchHtml(withQuery) } catch { try { html = await
\* fetchHtml(withPath) } ... }: the requests of one page
PageRequests(paged, queryOk) ==
    IF queryOk THEN <<paged.withQuery>> ELSE <<paged.withQuery, paged.withPath>>

\* One iteration whose html arrives, by the query form (byQuery) or, the query
\* form failing, by the path form.
WalkPage(byQuery, anchors) ==
    /\ wpc = "loop"
    /\ wP <= wMax
    /\ wPages' = wP
    /\ LET paged == makePagedUrl(wStart, wP)
           pageLinks == extractProductLinks(anchors)
           all == AddAll(wAll, pageLinks)
           added == Len(all) - Len(wAll)
       IN /\ wReq' = PageRequests(paged, byQuery)
          /\ wAll' = all
          /\ wLog' = Append(wLog, [page |-> wP, got |-> TRUE, added |-> added])
          /\ wQueryOk' = byQuery
          /\ IF WalkStops(added)
             THEN wpc' = "done" /\ wP' = wP
             ELSE wpc' = "loop" /\ wP' = wP + 1
    /\ UNCHANGED <<wStart, wMax>>
    /\ WalkFrame

\* One iteration where both forms fail: break
WalkPageUnreachable ==
    /\ wpc = "loop"
    /\ wP <= wMax
    /\ wPages' = wP
    /\ LET paged == makePagedUrl(wStart, wP)
       IN wReq' = PageRequests(paged, FALSE)
    /\ wLog' = Append(wLog, [page |-> wP, got |-> FALSE, added |-> 0])
    /\ wQueryOk' = FALSE
    /\ wpc' = "done"
    /\ UNCHANGED <<wStart, wMax, wP, wAll>>
    /\ WalkFrame

\* p <= maxPages fails: return { links, pages }
WalkCap ==
    /\ wpc = "loop"
    /\ wP > wMax
    /\ wpc' = "done"
    /\ UNCHANGED <<wStart, wMax, wP, wAll, wPages, wReq, wLog, wQueryOk>>
    /\ WalkFrame

WalkNext ==
    \/ \E byQuery \in BOOLEAN : \E anchors \in PageAnchors(wP) : WalkPage(byQuery, anchors)
    \/ WalkPageUnreachable
    \/ WalkCap

(***************************************************************************)
(* The trigger endpoint: authorized, run, GET and POST                     *)
(***************************************************************************)
MaxSources == 2

T_secret == <<"s", "3", "c">>
T_wrong == <<"n", "o">>
S_Bearer == <<"B", "e", "a", "r", "e", "r", " ">>
S_bearer == <<"b", "e", "a", "r", "e", "r", " ">>

\* function authorized(req); the request URL of a handler always parses
authorized(secret, req) ==
    IF secret = <<>> THEN TRUE
    ELSE IF req.authorization = Some(S_Bearer \o secret) THEN TRUE
    ELSE req.secret = Some(secret)

Request(method, authorization, secret) ==
    [method |-> method, authorization |-> authorization, secret |-> secret]

\* Requests with no credential, the right and a wrong bearer token, the right
\* and a wrong secret parameter, a lower-case "bearer".
Requests ==
    {Request("GET", Null, Null),
     Request("POST", Null, Null),
     Request("GET", Some(S_Bearer \o T_secret), Null),
     Request("POST", Some(S_Bearer \o T_secret), Null),
     Request("GET", Null, Some(T_secret)),
     Request("GET", Some(S_Bearer \o T_wrong), Null),
     Request("POST", Null, Some(T_wrong)),
     Request("GET", Some(S_bearer \o T_secret), Null),
     Request("GET", Some(S_Bearer \o T_wrong), Some(T_secret)),
     Request("GET", Some(T_secret), Some(<<>>))}

\* Requests sent when no secret is configured.
OpenRequests == {Request("GET", Null, Null), Request("POST", Null, Some(T_wrong))}

\* A row left in the listings table by an earlier run.
T_Old == <<"O", "l", "d">>
PriorRows ==
    {Listing(S_shop, "zoa", T_Old, <<Origin, Slash, S_product, Slash, T_b>>, Null,
             Some(10), Null, "available", Null)}

\* The rows of scrape_sources with is_active: a Woo shop, a row without
\* shop_id, a row whose url does not parse, ReefSolution.
RunSources ==
    {[url |-> <<Origin, Slash, T_x>>, shop_id |-> S_shop, category |-> "zoa"],
     [url |-> <<Origin, Slash, T_x>>, shop_id |-> S_blank, category |-> "zoa"],
     [url |-> <<>>, shop_id |-> S_shop, category |-> "zoa"],
     [url |-> <<ReefOrigin, Slash, T_x>>, shop_id |-> S_shop, category |-> "torch"]}

RunProducts == {p \in CatalogProducts : Len(p.variants) = 1 /\ p.title = Some(T_Torch)}
RunPages == {pg \in WooPages : pg.productTitle = T_A /\ pg.saleText = <<>> /\ ~pg.saysOutOfStock}
RunHrefs == {<<>>, <<<<Origin, Slash, S_product, Slash, T_x>>>>}

\* NextResponse.json(body, { status })
Body(ok, error, total, debug) ==
    [ok |-> ok, error |-> error, inserted_or_updated |-> total, debug |-> debug]

NoBody == Body(Null, Null, Null, Null)

RunErrorAnsweredOk(message) == [status |-> 200, body |-> Body(Some(TRUE), Null, Null, Null)]
\* catch (e) { return NextResponse.json({ ok: false, error }, { status: 500 }) }
RunError(message) == [status |-> 500, body |-> Body(Some(FALSE), Some(message), Null, Null)]

DeleteNone(rows) == rows
\* supabase.from("listings").delete().not("id", "is", null)
DeleteAll(rows) == {}

\* The scrape machine between two calls of scrapeSource.
ScrapeAtRest ==
    /\ spc = "idle"
    /\ src = NoSource
    /\ links = <<>>
    /\ left = 0
    /\ lpath = "none"
    /\ torchArg = Null
    /\ built = Null
    /\ accepted = FALSE
    /\ found = 0
    /\ applied = 0
    /\ sret = Null

RunIdle ==
    /\ rpc = "idle"
    /\ rRoute = "unnamed"
    /\ rSecret = <<>>
    /\ rReq = Request("GET", Null, Null)
    /\ rSources = <<>>
    /\ rIdx = 0
    /\ rDebug = <<>>
    /\ rFail = <<>>
    /\ rApplied = <<>>
    /\ rTotal = 0
    /\ rStatus = 0
    /\ rBody = NoBody

\* A request arrives; the table holds the rows of an earlier run.
RunInit ==
    /\ rpc = "request"
    /\ rRoute \in {"unnamed", "app"}
    /\ rSecret \in {<<>>, T_secret}
    /\ rReq \in (IF rSecret = <<>> THEN OpenRequests ELSE Requests)
    /\ rSources = <<>>
    /\ rIdx = 0
    /\ rDebug = <<>>
    /\ rFail = <<>>
    /\ rApplied = <<>>
    /\ rTotal = 0
    /\ rStatus = 0
    /\ rBody = NoBody
    /\ ScrapeAtRest
    /\ store = PriorRows

RunFrame == UNCHANGED <<fetchVars, urlVars, buildVars, upsertVars, walkVars, catVars, imgVars, overlapVars, seqVars>>

Respond(r) ==
    /\ rpc' = "responded"
    /\ rStatus' = r.status
    /\ rBody' = r.body

\* GET and POST of src/app/api/scrape/route.ts: getSupabase(), then ok
AppRouteGet ==
    /\ rpc = "request"
    /\ rRoute = "app"
    /\ Respond([status |-> 200, body |-> Body(Some(TRUE), Null, Null, Null)])
    /\ UNCHANGED <<rRoute, rSecret, rReq, rSources, rIdx, rDebug, rFail, rApplied, rTotal>>
    /\ UNCHANGED scrapeVars
    /\ RunFrame

\* getSupabase() throws: the environment variables are missing
AppRouteGetFails ==
    /\ rpc = "request"
    /\ rRoute = "app"
    /\ Respond(RunError("Missing SUPABASE env vars"))
    /\ UNCHANGED <<rRoute, rSecret, rReq, rSources, rIdx, rDebug, rFail, rApplied, rTotal>>
    /\ UNCHANGED scrapeVars
    /\ RunFrame

\* if (!authorized(req)) return NextResponse.json({ error: "Unauthorized" }, { status: 401 })
RunUnauthorized ==
    /\ rpc = "request"
    /\ rRoute = "unnamed"
    /\ ~authorized(rSecret, rReq)
    /\ Respond([status |-> 401, body |-> Body(Null, Some("Unauthorized"), Null, Null)])
    /\ UNCHANGED <<rRoute, rSecret, rReq, rSources, rIdx, rDebug, rFail, rApplied, rTotal>>
    /\ UNCHANGED scrapeVars
    /\ RunFrame

\* run(): the delete of every listing succeeds
RunDelete ==
    /\ rpc = "request"
    /\ rRoute = "unnamed"
    /\ authorized(rSecret, rReq)
    /\ store' = DeleteAll(store)
    /\ rpc' = "deleted"
    /\ UNCHANGED <<rRoute, rSecret, rReq, rSources, rIdx, rDebug, rFail, rApplied, rTotal, rStatus, rBody>>
    /\ UNCHANGED <<spc, src, links, left, lpath, torchArg, built, accepted, found, applied, sret>>
    /\ RunFrame

\* if (del.error) throw new Error(`Reset failed: ...`)
RunDeleteFails ==
    /\ rpc = "request"
    /\ rRoute = "unnamed"
    /\ authorized(rSecret, rReq)
    /\ Respond(RunError("Reset failed"))
    /\ UNCHANGED <<rRoute, rSecret, rReq, rSources, rIdx, rDebug, rFail, rApplied, rTotal>>
    /\ UNCHANGED scrapeVars
    /\ RunFrame

\* supabase.from("scrape_sources").select("*").eq("is_active", true)
RunSelect(data) ==
    /\ rpc = "deleted"
    /\ rSources' = data
    /\ rIdx' = 1
    /\ rpc' = "loop"
    /\ UNCHANGED <<rRoute, rSecret, rReq, rDebug, rFail, rApplied, rTotal, rStatus, rBody>>
    /\ UNCHANGED scrapeVars
    /\ RunFrame

\* if (error) throw new Error(error.message)
RunSelectFails ==
    /\ rpc = "deleted"
    /\ Respond(RunError("select failed"))
    /\ UNCHANGED <<rRoute, rSecret, rReq, rSources, rIdx, rDebug, rFail, rApplied, rTotal>>
    /\ UNCHANGED scrapeVars
    /\ RunFrame

\* for (const s of data) { const r = await scrapeSource(s): the call
RunScrapeSource ==
    /\ rpc = "loop"
    /\ rIdx <= Len(rSources)
    /\ rpc' = "scraping"
    /\ spc' = "start"
    /\ src' = rSources[rIdx]
    /\ UNCHANGED <<links, left, lpath, torchArg, built, accepted, store, found, applied, sret>>
    /\ UNCHANGED <<rRoute, rSecret, rReq, rSources, rIdx, rDebug, rFail, rApplied, rTotal, rStatus, rBody>>
    /\ RunFrame

SameSourceAgain(i) == i
\* for (const s of data): the iterator moves to the next row
NextSource(i) == i + 1

\* debug.push(r); total += r.found
RunCollect ==
    /\ rpc = "scraping"
    /\ spc = "done"
    /\ rDebug' = Append(rDebug, Val(sret))
    /\ rFail' = Append(rFail, IF lpath \in {"noshop", "badurl", "catalogfail", "unreachable"}
                              THEN lpath ELSE "none")
    /\ rApplied' = Append(rApplied, applied)
    /\ rTotal' = rTotal + Val(sret).found
    /\ rIdx' = NextSource(rIdx)
    /\ rpc' = "loop"
    /\ spc' = "idle"
    /\ src' = NoSource
    /\ links' = <<>>
    /\ left' = 0
    /\ lpath' = "none"
    /\ torchArg' = Null
    /\ built' = Null
    /\ accepted' = FALSE
    /\ found' = 0
    /\ applied' = 0
    /\ sret' = Null
    /\ UNCHANGED store
    /\ UNCHANGED <<rRoute, rSecret, rReq, rSources, rStatus, rBody>>
    /\ RunFrame

\* return { ok: true, inserted_or_updated: total, debug }, answered with 200
RunReport ==
    /\ rpc = "loop"
    /\ rIdx > Len(rSources)
    /\ Respond([status |-> 200, body |-> Body(Some(TRUE), Null, Some(rTotal), Some(rDebug))])
    /\ UNCHANGED <<rRoute, rSecret, rReq, rSources, rIdx, rDebug, rFail, rApplied, rTotal>>
    /\ UNCHANGED scrapeVars
    /\ RunFrame

\* scrapeSource inside run(), on the sources, products and pages of the run
RunSteps ==
    \/ AppRouteGet
    \/ AppRouteGetFails
    \/ RunUnauthorized
    \/ RunDelete
    \/ RunDeleteFails
    \/ \E data \in SeqsUpTo(RunSources, 0, MaxSources) : RunSelect(data)
    \/ RunSelectFails
    \/ RunScrapeSource
    \/ RunCollect
    \/ RunReport
    \/ ScrapeMissingShop
    \/ ScrapeBadUrl
    \/ \E n \in 0..1 : ScrapeReefCatalog(n)
    \/ \E n \in 0..1 : ScrapeShopifyCatalog(n)
    \/ ScrapeCatalogFails
    \/ ScrapeUnreachable
    \/ \E hrefs \in RunHrefs : ScrapeDiscover(hrefs)
    \/ VisitLinkFails
    \/ ScrapeReturn

\* The passes of the loops over products and links that build a listing
RunVisits ==
    \/ \E p \in RunProducts : VisitReefProduct(p)
    \/ \E p \in RunProducts : VisitCatalogProduct(p)
    \/ \E page \in RunPages : VisitWooLink(page)

RunNext == RunSteps \/ RunVisits

(***************************************************************************)
(* scrapeSource up to catalog mode: routing, the Shopify probe (through    *)
(* fetchWithRetry), fetchShopifyCatalogProducts, the loop over products    *)
(***************************************************************************)
CatalogPageLimit == 200
\* Pages up to this one may list two products; later pages list one.
MaxRichPages == 1

S_productsJson == <<"p", "r", "o", "d", "u", "c", "t", "s", ".", "j", "s", "o", "n">>
K_limit == <<"l", "i", "m", "i", "t">>
K_page == <<"p", "a", "g", "e">>
T_100 == <<"1", "0", "0">>

\* `${origin}/products.json?limit=1&page=1`
ProbeUrl(origin) ==
    <<origin, Slash, S_productsJson, QMark, K_limit, EqSign, T_1, Amp, K_page, EqSign, T_1>>

\* `${origin}/products.json?limit=${LIMIT}&page=${page}`
CatalogPageUrl(origin, n) ==
    <<origin, Slash, S_productsJson, QMark, K_limit, EqSign, T_100, Amp,
      K_page, EqSign, StringOfNat(n)>>

PageGuardOneMore(n) == n <= CatalogPageLimit
\* for (let page = 1; page < 200; page++)
PageGuard(n) == n < CatalogPageLimit

\* j?.products of page n: missing (null), empty, or products named by page
\* and rank.
PageProducts(n) ==
    {Null, Some(<<>>), Some(<< <<n, 1>> >>)}
        \cup (IF n <= MaxRichPages THEN {Some(<< <<n, 1>>, <<n, 2>> >>)} ELSE {})

CatSources ==
    {[url |-> <<Origin, Slash, T_x>>, shop_id |-> S_shop, category |-> "zoa"],
     [url |-> <<Origin, Slash, T_x>>, shop_id |-> S_blank, category |-> "zoa"],
     [url |-> <<>>, shop_id |-> S_shop, category |-> "zoa"],
     [url |-> <<ReefOrigin, Slash, T_x>>, shop_id |-> S_shop, category |-> "torch"]}

\* What the body of a 2xx answer to the probe is.
ProbeBodies == {"array", "no-array", "bad-json"}

CatIdle ==
    /\ kpc = "idle"
    /\ kSrc = NoSource
    /\ kProbe = "none"
    /\ kProbeReqs = 0
    /\ kMode = "none"
    /\ kPage = 0
    /\ kLog = <<>>
    /\ kOut = <<>>
    /\ kLastUrl = NoString
    /\ kLeft = 0
    /\ kVisited = 0
    /\ kRet = "none"

CatInit ==
    /\ kpc = "start"
    /\ kSrc \in CatSources
    /\ kProbe = "none"
    /\ kProbeReqs = 0
    /\ kMode = "none"
    /\ kPage = 0
    /\ kLog = <<>>
    /\ kOut = <<>>
    /\ kLastUrl = NoString
    /\ kLeft = 0
    /\ kVisited = 0
    /\ kRet = "none"

CatFrame == UNCHANGED <<fetchVars, urlVars, scrapeVars, buildVars, upsertVars, walkVars, runVars, imgVars, overlapVars, seqVars>>
CatFrameButFetch == UNCHANGED <<urlVars, scrapeVars, buildVars, upsertVars, walkVars, runVars, imgVars, overlapVars, seqVars>>

CatHasShopId == trim(kSrc.shop_id) # <<>>

\* The frame of fetchWithRetry is gone.
FetchForgotten ==
    /\ fpc' = "idle"
    /\ maxAttempts' = 0
    /\ attempt' = 0
    /\ requests' = 0
    /\ sleepCount' = 0
    /\ sleepMs' = 0
    /\ resp' = NoResp
    /\ lastErr' = Null
    /\ ferror' = Null

\* return { source: src.url, found: 0, error: "Missing shop_id" }
CatMissingShop ==
    /\ kpc = "start"
    /\ ~CatHasShopId
    /\ kpc' = "done"
    /\ kMode' = "missing"
    /\ kRet' = "error"
    /\ UNCHANGED <<kSrc, kProbe, kProbeReqs, kPage, kLog, kOut, kLastUrl, kLeft, kVisited>>
    /\ CatFrame

\* isReefSolutionSource catches and answers false; new URL(src.url) throws
CatBadUrl ==
    /\ kpc = "start"
    /\ CatHasShopId
    /\ ~UrlParses(kSrc.url)
    /\ kpc' = "done"
    /\ kMode' = "error"
    /\ kRet' = "error"
    /\ UNCHANGED <<kSrc, kProbe, kProbeReqs, kPage, kLog, kOut, kLastUrl, kLeft, kVisited>>
    /\ CatFrame

\* if (isReefSolutionSource(src)) return await scrapeReefSolutionCatalog(src)
CatReef ==
    /\ kpc = "start"
    /\ CatHasShopId
    /\ UrlParses(kSrc.url)
    /\ isReefSolutionSource(kSrc)
    /\ kpc' = "paging"
    /\ kMode' = "reef"
    /\ kPage' = 1
    /\ UNCHANGED <<kSrc, kProbe, kProbeReqs, kLog, kOut, kLastUrl, kLeft, kVisited, kRet>>
    /\ CatFrame

\* isShopifyOrigin(origin): fetchWithRetry(url, 3) is entered
CatProbeCall ==
    /\ kpc = "start"
    /\ CatHasShopId
    /\ UrlParses(kSrc.url)
    /\ ~isReefSolutionSource(kSrc)
    /\ kpc' = "probing"
    /\ kLastUrl' = ProbeUrl(NewURL(kSrc.url).origin)
    /\ fpc' = "loop"
    /\ maxAttempts' = ProbeMaxAttempts
    /\ attempt' = 1
    /\ requests' = 0
    /\ sleepCount' = 0
    /\ sleepMs' = 0
    /\ resp' = NoResp
    /\ lastErr' = Null
    /\ ferror' = Null
    /\ UNCHANGED <<kSrc, kProbe, kProbeReqs, kMode, kPage, kLog, kOut, kLeft, kVisited, kRet>>
    /\ CatFrameButFetch

\* The probe is over with the answer `answer`: catalog mode when it is true,
\* link discovery (outside this machine) when it is false.
ProbeOver(met, answer) ==
    /\ kProbe' = met
    /\ kProbeReqs' = requests
    /\ IF answer
       THEN kMode' = "catalog" /\ kpc' = "paging" /\ kPage' = 1
       ELSE kMode' = "discover" /\ kpc' = "done" /\ kPage' = kPage
    /\ FetchForgotten
    /\ UNCHANGED <<kSrc, kLog, kOut, kLastUrl, kLeft, kVisited, kRet>>
    /\ CatFrameButFetch

ProbeAnswerAnyOk(body) == TRUE
\* const j = await r.json(); return Array.isArray(j?.products), false when
\* r.json() throws
ProbeAnswer(body) == body = "array"

\* fetchWithRetry returned r (r.ok)
CatProbeReturns(body) ==
    /\ kpc = "probing"
    /\ fpc = "returned"
    /\ ProbeOver(body, ProbeAnswer(body))

\* fetchWithRetry threw: catch { return false }
CatProbeThrown ==
    /\ kpc = "probing"
    /\ fpc = "thrown"
    /\ ProbeOver("threw", FALSE)

\* await fetch(...) rejects (the origin is unreachable): catch { return false }
CatProbeRejected ==
    /\ kpc = "probing"
    /\ fpc = "awaitResp"
    /\ ProbeOver("threw", FALSE)

\* One pass of the loop of fetchShopifyCatalogProducts whose fetchJson returns
CatPage(products) ==
    /\ kpc = "paging"
    /\ PageGuard(kPage)
    /\ kLastUrl' = CatalogPageUrl(NewURL(kSrc.url).origin, kPage)
    /\ kLog' = Append(kLog, products)
    /\ LET arr == IF IsNull(products) THEN <<>> ELSE Val(products)
       IN IF arr = <<>>
          THEN /\ kpc' = "upserting"
               /\ kLeft' = Len(kOut)
               /\ UNCHANGED <<kPage, kOut>>
          ELSE /\ kOut' = kOut \o arr
               /\ kPage' = kPage + 1
               /\ UNCHANGED <<kpc, kLeft>>
    /\ UNCHANGED <<kSrc, kProbe, kProbeReqs, kMode, kVisited, kRet>>
    /\ CatFrame

CaughtReturnsFound == "found"
\* catch (e) { return { source: src.url, found: 0, error: e?.message } }
CaughtReturn == "error"

\* fetchJson throws: fetchShopifyCatalogProducts and the catalog scraper throw,
\* the catch of scrapeSource returns { source, found: 0, error }
CatPageFails ==
    /\ kpc = "paging"
    /\ PageGuard(kPage)
    /\ kLastUrl' = CatalogPageUrl(NewURL(kSrc.url).origin, kPage)
    /\ kpc' = "done"
    /\ kMode' = "error"
    /\ kOut' = <<>>
    /\ kRet' = CaughtReturn
    /\ UNCHANGED <<kSrc, kProbe, kProbeReqs, kPage, kLog, kLeft, kVisited>>
    /\ CatFrame

\* page < 200 fails: return out
CatPageCap ==
    /\ kpc = "paging"
    /\ ~PageGuard(kPage)
    /\ kpc' = "upserting"
    /\ kLeft' = Len(kOut)
    /\ UNCHANGED <<kSrc, kProbe, kProbeReqs, kMode, kPage, kLog, kOut, kLastUrl, kVisited, kRet>>
    /\ CatFrame

\* One pass of for (const p of products): build, upsertIfValid, sleep
CatVisitOne ==
    /\ kpc = "upserting"
    /\ kLeft > 0
    /\ kLeft' = kLeft - 1
    /\ kVisited' = kVisited + 1
    /\ UNCHANGED <<kpc, kSrc, kProbe, kProbeReqs, kMode, kPage, kLog, kOut, kLastUrl, kRet>>
    /\ CatFrame

\* return { source: `${origin} (catalog)`, found }
CatReturn ==
    /\ kpc = "upserting"
    /\ kLeft = 0
    /\ kpc' = "done"
    /\ kRet' = "found"
    /\ UNCHANGED <<kSrc, kProbe, kProbeReqs, kMode, kPage, kLog, kOut, kLastUrl, kLeft, kVisited>>
    /\ CatFrame

CatNext ==
    \/ CatMissingShop
    \/ CatBadUrl
    \/ CatReef
    \/ CatProbeCall
    \/ FetchIssue
    \/ FetchExhausted
    \/ \E st \in Statuses, h \in RetryAfterHeaders : FetchResponse(st, h)
    \/ FetchWake
    \/ \E body \in ProbeBodies : CatProbeReturns(body)
    \/ CatProbeThrown
    \/ CatProbeRejected
    \/ \E products \in PageProducts(kPage) : CatPage(products)
    \/ CatPageFails
    \/ CatPageCap
    \/ CatVisitOne
    \/ CatReturn

(***************************************************************************)
(* The image of a product page: looksLikeBadImg, absolutizeImg and the      *)
(* choice among the candidates                                             *)
(***************************************************************************)
MaxCandidates == 3

\* s.endsWith(suffix)
endsWith(s, suffix) ==
    Len(s) >= Len(suffix) /\ SubSeq(s, Len(s) - Len(suffix) + 1, Len(s)) = suffix

\* s.startsWith(prefix)
startsWith(s, prefix) ==
    Len(s) >= Len(prefix) /\ SubSeq(s, 1, Len(prefix)) = prefix

BadImgWords ==
    {<<"l", "o", "g", "o">>, <<"p", "l", "a", "c", "e", "h", "o", "l", "d", "e", "r">>, <<"n", "o", "-", "i", "m", "a", "g", "e">>, <<"f", "a", "v", "i", "c", "o", "n">>, <<"s", "i", "t", "e", "-", "i", "c", "o", "n">>, <<"-", "1", "5", "0", "x">>, <<"-", "1", "0", "0", "x">>, <<"-", "8", "0", "x">>}

looksLikeBadImg(u) ==
    LET low == toLowerCase(u)
    IN \/ \E w \in BadImgWords : includes(low, w)
       \/ endsWith(low, <<".", "s", "v", "g">>)

PageOrigin == <<"h", "t", "t", "p", "s", ":", "/", "/", "s", "h", "o", "p", ".", "e", "x", "a", "m", "p", "l", "e">>
I_https == <<"h", "t", "t", "p", "s", ":", "/", "/">>
I_http == <<"h", "t", "t", "p", ":", "/", "/">>

\* new URL(s, urlRaw).toString() on the candidates of the model: an absolute
\* URL stands, a path is put behind the origin of the page; null: it throws
\* (a scheme with no host).
ResolveImg(t) ==
    IF t \in {I_https, I_http} THEN Null
    ELSE IF startsWith(t, I_https) \/ startsWith(t, I_http) THEN Some(t)
    ELSE IF startsWith(t, <<"/">>) THEN Some(PageOrigin \o t)
    ELSE Some(PageOrigin \o <<"/", "p", "r", "o", "d", "u", "c", "t", "/">> \o t)

absolutizeImg(u) ==
    IF IsNull(u) THEN Null
    ELSE LET t == trim(Val(u))
         IN IF t = <<>> THEN Null
            ELSE LET abs == ResolveImg(t)
                 IN IF IsNull(abs) THEN Null
                    ELSE IF looksLikeBadImg(Val(abs)) THEN Null
                    ELSE abs

\* rawCandidates.map((c) => absolutizeImg(urlRaw, c)).find((x) => x != null) ?? null
WooImage(cands) == FirstNonNull([i \in 1..Len(cands) |-> absolutizeImg(cands[i])])

\* $('meta[property="og:image"]').attr("content") || $('meta[name="og:image"]').attr("content") || null
ShopifyHtmlImage(cands) == FirstTruthy(cands)

Img_logo == <<"h", "t", "t", "p", "s", ":", "/", "/", "x", "/", "l", "o", "g", "o", ".", "s", "v", "g">>
Img_thumb == <<"h", "t", "t", "p", "s", ":", "/", "/", "x", "/", "p", "r", "o", "d", "-", "1", "5", "0", "x", "1", "5", "0", ".", "j", "p", "g">>
Img_full == <<"h", "t", "t", "p", "s", ":", "/", "/", "x", "/", "p", "r", "o", "d", "-", "f", "u", "l", "l", ".", "j", "p", "g">>
Img_relBad == <<"/", "i", "m", "g", "/", "P", "l", "a", "c", "e", "h", "o", "l", "d", "e", "r", ".", "p", "n", "g">>
Img_rel == <<"/", "i", "m", "g", "/", "p", ".", "j", "p", "g">>
Img_blank == <<" ">>

\* The candidates of a page: a missing attribute, a blank one, a scheme with
\* no host, the three images of the scenario, a bad and a good relative path.
ImgCandidates ==
    {Null, Some(Img_blank), Some(I_http), Some(Img_logo), Some(Img_thumb), Some(Img_full),
     Some(Img_relBad), Some(Img_rel)}

ImgIdle ==
    /\ iStage = "idle"
    /\ iKind = "none"
    /\ iCands = <<>>
    /\ iOut = Null

\* A Shopify product page has the two og:image tags as its candidates.
ImgInit ==
    /\ iStage = "input"
    /\ \/ iKind = "woo" /\ iCands \in SeqsUpTo(ImgCandidates, 0, MaxCandidates)
       \/ iKind = "html" /\ iCands \in SeqsUpTo(ImgCandidates, 2, 2)
    /\ iOut = Null

ImgFrame == UNCHANGED <<fetchVars, urlVars, scrapeVars, buildVars, upsertVars, walkVars, runVars, catVars, overlapVars, seqVars>>

\* parseHtmlProduct, lines 1739-1771
ImgPickWoo ==
    /\ iStage = "input"
    /\ iKind = "woo"
    /\ iStage' = "picked"
    /\ iOut' = WooImage(iCands)
    /\ UNCHANGED <<iKind, iCands>>
    /\ ImgFrame

\* parseShopifyHtmlFallback, line 1575
ImgPickShopifyHtml ==
    /\ iStage = "input"
    /\ iKind = "html"
    /\ iStage' = "picked"
    /\ iOut' = ShopifyHtmlImage(iCands)
    /\ UNCHANGED <<iKind, iCands>>
    /\ ImgFrame

ImgNext == ImgPickWoo \/ ImgPickShopifyHtml

(***************************************************************************)
(* Two runs at once: two requests reach the handler, each run deletes the  *)
(* rows and upserts the listings of the sources, one awaited store call    *)
(* after the other; the store takes the calls of the two runs in any order *)
(***************************************************************************)
MaxOverlapListings == 2

Runs == {1, 2}

\* What the sources give: two listings of one product (the product is linked
\* twice, read at two prices), a listing of another product, a listing
\* upsertIfValid drops.
OverlapListings ==
    {Some(Listing(S_shop, "zoa", T_A, <<Origin, Slash, S_products, Slash, T_x>>, Null,
                  Some(20), Null, "available", Null)),
     Some(Listing(S_shop, "zoa", T_A, <<Origin, Slash, S_products, Slash, T_x>>, Null,
                  Some(30), Null, "sold_out", Null)),
     Some(Listing(S_shop, "zoa", T_A, <<Origin, Slash, S_products, Slash, T_a>>, Null,
                  Some(20), Null, "available", Null)),
     Some(Listing(S_shop, "zoa", T_A, <<Origin, Slash, S_products, Slash, T_a>>, Null,
                  Some(0), Null, "available", Null))}

OverlapIdle ==
    /\ oPc = [r \in Runs |-> "idle"]
    /\ oIdx = [r \in Runs |-> 0]
    /\ oList = <<>>
    /\ oStore = {}
    /\ oWiped = FALSE

\* Both requests are in; the table holds the rows of an earlier run or none.
OverlapInit ==
    /\ oPc = [r \in Runs |-> "start"]
    /\ oIdx = [r \in Runs |-> 0]
    /\ oList \in SeqsUpTo(OverlapListings, 0, MaxOverlapListings)
    /\ oStore \in {{}, PriorRows}
    /\ oWiped = FALSE

OverlapFrame == UNCHANGED <<fetchVars, urlVars, scrapeVars, buildVars, upsertVars, walkVars, runVars, catVars, imgVars, seqVars>>

\* run(): await supabase.from("listings").delete().not("id", "is", null)
OverlapDelete(r) ==
    /\ oPc[r] = "start"
    /\ oStore' = DeleteAll(oStore)
    /\ oWiped' = (oWiped \/ (oStore \ PriorRows) # {})
    /\ oPc' = [oPc EXCEPT ![r] = "upserting"]
    /\ oIdx' = [oIdx EXCEPT ![r] = 1]
    /\ UNCHANGED oList
    /\ OverlapFrame

\* The next await upsertIfValid(listing) of run r
OverlapUpsert(r) ==
    /\ oPc[r] = "upserting"
    /\ oIdx[r] <= Len(oList)
    /\ oStore' = upsertIfValid(oStore, oList[oIdx[r]]).rows
    /\ oIdx' = [oIdx EXCEPT ![r] = oIdx[r] + 1]
    /\ UNCHANGED <<oPc, oList, oWiped>>
    /\ OverlapFrame

\* return { ok: true, inserted_or_updated: total, debug }
OverlapReturn(r) ==
    /\ oPc[r] = "upserting"
    /\ oIdx[r] > Len(oList)
    /\ oPc' = [oPc EXCEPT ![r] = "done"]
    /\ UNCHANGED <<oIdx, oList, oStore, oWiped>>
    /\ OverlapFrame

OverlapNext ==
    \E r \in Runs : OverlapDelete(r) \/ OverlapUpsert(r) \/ OverlapReturn(r)

(***************************************************************************)
(* The awaited calls of one run, call site by call site: every fetch,      *)
(* store call and sleep of run() and of what it calls is awaited, so the   *)
(* code after a call runs when the call has returned                       *)
(***************************************************************************)
MaxSeqSources == 2
MaxSeqItems == 2
MaxSeqPages == 2

\* await fetch(...) inside fetchWithRetry, by the caller of fetchHtml/fetchJson
HttpSites == {"probe", "catalogPage", "walkQuery", "walkPath", "productJs", "productHtml"}
\* await supabase.from(...)
StoreSites == {"delete", "select", "upsert"}
\* await sleep(...) after a product or link, after a source
SleepSites == {"itemSleep", "sourceSleep"}

Goto(site) == <<site, "call">>

CanGoOnUnawaited(phase) == TRUE
\* The statement after an await runs once the awaited call has returned: a
\* call site is entered in phase "call", never while a call is awaited.
CanGoOn(phase) == phase = "call"

SeqIdle ==
    /\ qPc = <<"idle", "call">>
    /\ qMode = "none"
    /\ qSrc = 0
    /\ qItems = 0
    /\ qPages = 0
    /\ qHttp = 0
    /\ qStore = 0

\* run() is entered
SeqInit ==
    /\ qPc = Goto("delete")
    /\ qMode = "none"
    /\ qSrc = 0
    /\ qItems = 0
    /\ qPages = 0
    /\ qHttp = 0
    /\ qStore = 0

SeqFrame == UNCHANGED <<fetchVars, urlVars, scrapeVars, buildVars, upsertVars, walkVars, runVars, catVars, imgVars, overlapVars>>

\* The call at the site is made: a request goes out, a store operation or a
\* timer starts.
SeqCall ==
    /\ qPc[1] \in HttpSites \cup StoreSites \cup SleepSites
    /\ CanGoOn(qPc[2])
    /\ qHttp' = IF qPc[1] \in HttpSites THEN qHttp + 1 ELSE qHttp
    /\ qStore' = IF qPc[1] \in StoreSites THEN qStore + 1 ELSE qStore
    /\ qPc' = <<qPc[1], "wait">>
    /\ UNCHANGED <<qMode, qSrc, qItems, qPages>>
    /\ SeqFrame

\* The source at hand is over: scrapeSource returns, run() sleeps
SourceOver ==
    /\ qPc' = Goto("sourceSleep")
    /\ qMode' = "none"
    /\ qItems' = 0
    /\ qPages' = 0

\* A store call returns: delete and select of run() (an error is thrown to
\* the handler), the upsert of upsertIfValid (its error is not looked at).
SeqStoreReturns(ok, n) ==
    /\ qPc[1] \in StoreSites
    /\ qPc[2] = "wait"
    /\ qStore' = qStore - 1
    /\ UNCHANGED qHttp
    /\ IF qPc[1] = "delete"
       THEN /\ qPc' = IF ok THEN Goto("select") ELSE Goto("done")
            /\ UNCHANGED <<qMode, qSrc, qItems, qPages>>
       ELSE IF qPc[1] = "select"
       THEN /\ qPc' = IF ok THEN Goto("source") ELSE Goto("done")
            /\ qSrc' = IF ok THEN n ELSE 0
            /\ UNCHANGED <<qMode, qItems, qPages>>
       ELSE /\ qPc' = Goto("itemSleep")
            /\ UNCHANGED <<qMode, qSrc, qItems, qPages>>
    /\ SeqFrame

\* for (const s of data): the next source, routed by scrapeSource: a row
\* with no shop_id or an unparsable url (no call at all), ReefSolution
\* (catalog pages), any other (the Shopify probe)
SeqSourceHead(route) ==
    /\ qPc = Goto("source")
    /\ IF qSrc = 0
       THEN /\ qPc' = Goto("done")
            /\ UNCHANGED <<qMode, qSrc, qItems, qPages>>
       ELSE /\ qSrc' = qSrc - 1
            /\ qItems' = 0
            /\ qPages' = 0
            /\ IF route = "none" THEN qPc' = Goto("sourceSleep") /\ qMode' = "none"
               ELSE IF route = "reef" THEN qPc' = Goto("catalogPage") /\ qMode' = "catalog"
               ELSE qPc' = Goto("probe") /\ qMode' = "none"
    /\ UNCHANGED <<qHttp, qStore>>
    /\ SeqFrame

\* fetchWithRetry: the response is 429 or 5xx and attempts are left: sleep
SeqHttpRetry ==
    /\ qPc[1] \in HttpSites
    /\ qPc[2] = "wait"
    /\ qHttp' = qHttp - 1
    /\ qPc' = <<qPc[1], "backoff">>
    /\ UNCHANGED <<qMode, qSrc, qItems, qPages, qStore>>
    /\ SeqFrame

\* The sleep of fetchWithRetry ends: the next attempt
SeqWake ==
    /\ qPc[2] = "backoff"
    /\ qPc' = Goto(qPc[1])
    /\ UNCHANGED <<qMode, qSrc, qItems, qPages, qHttp, qStore>>
    /\ SeqFrame

\* The pages of a catalog or of the walk: n products or new links on the
\* page that came back
MorePages(n) ==
    /\ qPages' = qPages + 1
    /\ IF n > 0 /\ qPages + 1 < MaxSeqPages
       THEN /\ qItems' = Min(qItems + n, MaxSeqItems)
            /\ qPc' = Goto(IF qMode = "catalog" THEN "catalogPage" ELSE "walkQuery")
       ELSE /\ qItems' = Min(qItems + n, MaxSeqItems)
            /\ qPc' = Goto("item")
    /\ UNCHANGED <<qMode, qSrc>>

\* The fetch at an HTTP site is over: it returned (ok) or threw.
SeqHttpReturns(ok, n) ==
    /\ qPc[1] \in HttpSites
    /\ qPc[2] = "wait"
    /\ qHttp' = qHttp - 1
    /\ UNCHANGED qStore
    /\ IF qPc[1] = "probe"
       THEN /\ qMode' = IF ok /\ n > 0 THEN "catalog" ELSE "links"
            /\ qPc' = IF ok /\ n > 0 THEN Goto("catalogPage") ELSE Goto("walkQuery")
            /\ UNCHANGED <<qSrc, qItems, qPages>>
       ELSE IF qPc[1] = "catalogPage"
       THEN IF ok THEN MorePages(n) ELSE SourceOver /\ UNCHANGED qSrc
       ELSE IF qPc[1] = "walkQuery"
       THEN IF ok THEN MorePages(n)
            ELSE qPc' = Goto("walkPath") /\ UNCHANGED <<qMode, qSrc, qItems, qPages>>
       ELSE IF qPc[1] = "walkPath"
       THEN IF ok THEN MorePages(n)
            ELSE qPc' = Goto("item") /\ UNCHANGED <<qMode, qSrc, qItems, qPages>>
       ELSE IF qPc[1] = "productJs"
       THEN /\ qPc' = IF ok THEN (IF n > 0 THEN Goto("upsert") ELSE Goto("itemSleep"))
                      ELSE Goto("productHtml")
            /\ UNCHANGED <<qMode, qSrc, qItems, qPages>>
       ELSE /\ qPc' = IF ok THEN (IF n > 0 THEN Goto("upsert") ELSE Goto("itemSleep"))
                      ELSE Goto("item")
            /\ UNCHANGED <<qMode, qSrc, qItems, qPages>>
    /\ SeqFrame

\* for (const p of products) / for (const rawUrl of links.slice(0, 1800)):
\* the next product or link.  A product of a catalog is built and upserted,
\* or skipped (not a torch, no listing); a link is fetched, as
\* /products/<handle>.js or as a page.
SeqItemHead(step) ==
    /\ qPc = Goto("item")
    /\ IF qItems = 0
       THEN SourceOver /\ UNCHANGED qSrc
       ELSE /\ qItems' = qItems - 1
            /\ qPc' = IF qMode = "catalog"
                      THEN (IF step = "skip" THEN Goto("item")
                            ELSE IF step = "invalid" THEN Goto("itemSleep")
                            ELSE Goto("upsert"))
                      ELSE (IF step = "skip" THEN Goto("productHtml") ELSE Goto("productJs"))
            /\ UNCHANGED <<qMode, qSrc, qPages>>
    /\ UNCHANGED <<qHttp, qStore>>
    /\ SeqFrame

\* An awaited sleep ends.
SeqSleepReturns ==
    /\ qPc[1] \in SleepSites
    /\ qPc[2] = "wait"
    /\ qPc' = IF qPc[1] = "itemSleep" THEN Goto("item") ELSE Goto("source")
    /\ UNCHANGED <<qMode, qSrc, qItems, qPages, qHttp, qStore>>
    /\ SeqFrame

SeqNext ==
    \/ SeqCall
    \/ \E ok \in BOOLEAN, n \in 0..MaxSeqSources : SeqStoreReturns(ok, n)
    \/ \E route \in {"none", "reef", "probe"} : SeqSourceHead(route)
    \/ SeqHttpRetry
    \/ SeqWake
    \/ \E ok \in BOOLEAN, n \in 0..MaxSeqItems : SeqHttpReturns(ok, n)
    \/ \E step \in {"skip", "invalid", "upsert"} : SeqItemHead(step)
    \/ SeqSleepReturns

(***************************************************************************)
(* Specifications: one per component, the others standing still            *)
(***************************************************************************)
InitFetch == FetchInit /\ UrlIdle /\ ScrapeIdle /\ BuildIdle /\ UpsertIdle /\ WalkIdle /\ RunIdle /\ CatIdle /\ ImgIdle /\ OverlapIdle /\ SeqIdle
SpecFetch == InitFetch /\ [][FetchNext]_vars

InitUrl == UrlInit /\ FetchInit /\ ScrapeIdle /\ BuildIdle /\ UpsertIdle /\ WalkIdle /\ RunIdle /\ CatIdle /\ ImgIdle /\ OverlapIdle /\ SeqIdle
SpecUrl == InitUrl /\ [][UrlNext]_vars

InitScrape == ScrapeInit /\ FetchInit /\ UrlIdle /\ BuildIdle /\ UpsertIdle /\ WalkIdle /\ RunIdle /\ CatIdle /\ ImgIdle /\ OverlapIdle /\ SeqIdle
SpecScrape == InitScrape /\ [][ScrapeNext]_vars

InitBuild == BuildInit /\ FetchInit /\ UrlIdle /\ ScrapeIdle /\ UpsertIdle /\ WalkIdle /\ RunIdle /\ CatIdle /\ ImgIdle /\ OverlapIdle /\ SeqIdle
SpecBuild == InitBuild /\ [][BuildNext]_vars

InitUpsert == UpsertInit /\ FetchInit /\ UrlIdle /\ ScrapeIdle /\ BuildIdle /\ WalkIdle /\ RunIdle /\ CatIdle /\ ImgIdle /\ OverlapIdle /\ SeqIdle
SpecUpsert == InitUpsert /\ [][UpsertNext]_vars

InitWalk == WalkInit /\ FetchInit /\ UrlIdle /\ ScrapeIdle /\ BuildIdle /\ UpsertIdle /\ RunIdle /\ CatIdle /\ ImgIdle /\ OverlapIdle /\ SeqIdle
SpecWalk == InitWalk /\ [][WalkNext]_vars

InitRun == RunInit /\ FetchInit /\ UrlIdle /\ BuildIdle /\ UpsertIdle /\ WalkIdle /\ CatIdle /\ ImgIdle /\ OverlapIdle /\ SeqIdle
SpecRun == InitRun /\ [][RunNext]_vars

\* A product of a catalog is waiting for its pass of the loop: where this
\* holds a step of RunVisits can be taken.
ProductAhead == spc \in {"reef", "catalog"} /\ left > 0

\* WF_vars(RunVisits) on the loops over the products of a catalog, with its
\* ENABLED written as ProductAhead.  (On the loop over links no fairness of
\* the visits is needed: the failing visit, a step of RunSteps, can be taken
\* wherever a visit can.)
VisitFairness == []<>(~ProductAhead) \/ []<><<RunVisits>>_vars

\* Every awaited request, sleep and store call returns, so a step of the run
\* that can be taken is taken.
SpecRunLive == SpecRun /\ WF_vars(RunSteps) /\ VisitFairness

InitCat == CatInit /\ FetchInit /\ UrlIdle /\ ScrapeIdle /\ BuildIdle /\ UpsertIdle /\ WalkIdle /\ RunIdle /\ ImgIdle /\ OverlapIdle /\ SeqIdle
SpecCat == InitCat /\ [][CatNext]_vars

InitImg == ImgInit /\ FetchInit /\ UrlIdle /\ ScrapeIdle /\ BuildIdle /\ UpsertIdle /\ WalkIdle /\ RunIdle /\ CatIdle /\ OverlapIdle /\ SeqIdle
SpecImg == InitImg /\ [][ImgNext]_vars

InitOverlap == OverlapInit /\ FetchInit /\ UrlIdle /\ ScrapeIdle /\ BuildIdle /\ UpsertIdle /\ WalkIdle /\ RunIdle /\ CatIdle /\ ImgIdle /\ SeqIdle
SpecOverlap == InitOverlap /\ [][OverlapNext]_vars

InitSeq == SeqInit /\ FetchInit /\ UrlIdle /\ ScrapeIdle /\ BuildIdle /\ UpsertIdle /\ WalkIdle /\ RunIdle /\ CatIdle /\ ImgIdle /\ OverlapIdle
SpecSeq == InitSeq /\ [][SeqNext]_vars


(***************************************************************************)
(* Claims about the URL normaliser (checked under SpecUrl)                 *)
(***************************************************************************)
\* C4: normalizeUrl is idempotent: normalizeUrl(normalizeUrl(u)) is
\* normalizeUrl(u) for every URL u, also when the path begins with two
\* locale-shaped segments or ends in slashes.
C4_Idempotent ==
    uStage = "renormalized" => outAgain = outIn

\* C5: two URLs that differ only by tracking parameters (utm_*, fbclid, gclid)
\* or by a leading locale segment normalize to the identical string, and no
\* tracking parameter survives normalisation.
C5_TrackingAndLocaleInsensitive ==
    uStage \in {"normalized", "renormalized"} =>
        /\ uRel \in {"tracking", "locale"} => outIn = outAlt
        /\ \A i \in 1..Len(NewURL(outIn).params) : ~IsTrackingKey(NewURL(outIn).params[i][1])

\* C6: two URLs whose query strings are permutations of the same list of
\* key=value pairs normalize to the identical string.
C6_ParamOrderInsensitive ==
    (uStage \in {"normalized", "renormalized"} /\ uRel = "perm") => outIn = outAlt

\* C7: canonicalProductUrl(u) has an empty query string, and two URLs that
\* differ only in their query string have the same canonicalProductUrl (each
\* has the canonical URL of the URL without query string).
C7_CanonicalHasNoQuery ==
    uStage \in {"normalized", "renormalized"} =>
        /\ IndexOf(canIn, QMark) = 0
        /\ NewURL(canIn).params = <<>>
        /\ IndexOf(canAlt, QMark) = 0
        /\ uRel = "query" => canIn = canAlt

C7_Witness ==
    /\ uStage = "normalized"
    /\ uRel = "query"
    /\ NewURL(uIn).params = <<<<T_b, T_1>>, <<T_a, T_2>>>>
    /\ NewURL(uAlt).params = <<>>
    /\ canIn = canAlt

(***************************************************************************)
(* Claims about the listings (checked under SpecScrape)                    *)
(***************************************************************************)
\* The last item was built into a listing that upsertIfValid passed to the
\* store's upsert.
Upserted == accepted /\ ~IsNull(built)

\* C8: every listing handed to the store's upsert, by any extraction path
\* (Shopify single product, Shopify catalog, Shopify HTML fallback,
\* WooCommerce HTML), has the canonical product URL as its url: it carries no
\* query string, so two links to one product that differ only in non-tracking
\* query parameters never give two rows for one shop.
C8_UpsertedUrlIsCanonical ==
    /\ Upserted =>
          /\ IndexOf(Val(Val(built).url), QMark) = 0
          /\ Val(Val(built).url) = canonicalProductUrl(Val(Val(built).url))
    /\ \A r1, r2 \in store :
          (r1.shop_id = r2.shop_id
             /\ canonicalProductUrl(Val(r1.url)) = canonicalProductUrl(Val(r2.url)))
          => r1 = r2

\* C9: every listing built by any extractor has price_cad and sale_price_cad
\* each null or strictly positive, and a non-null sale_price_cad comes with a
\* non-null price_cad above it.
C9_PricesConsistent ==
    ~IsNull(built) =>
        LET l == Val(built)
        IN /\ IsNull(l.price_cad) \/ Val(l.price_cad) > 0
           /\ IsNull(l.sale_price_cad) \/ Val(l.sale_price_cad) > 0
           /\ ~IsNull(l.sale_price_cad) =>
                 /\ ~IsNull(l.price_cad)
                 /\ Val(l.sale_price_cad) < Val(l.price_cad)

\* C10: every listing produced by any extraction path with category torch
\* has sale_mode wysiwyg when its title contains "wysiwyg" in any letter
\* case, and otherwise sale_mode per_unit with unit_type head and unit_count
\* null; no torch row of the store has a null sale_mode; a listing of any
\* other category leaves enforceTorch as it entered it.
C10_TorchEnforced ==
    /\ ~IsNull(built) =>
          LET l == Val(built)
          IN /\ ~IsNull(torchArg)
             /\ (l.category = "torch" /\ isWysiwyg(l.title_raw)) =>
                    l = [Val(torchArg) EXCEPT !.sale_mode = Some("wysiwyg")]
             /\ (l.category = "torch" /\ ~isWysiwyg(l.title_raw)) =>
                    /\ l.sale_mode = Some("per_unit")
                    /\ l.unit_type = Some("head")
                    /\ l.unit_count = Null
             /\ l.category # "torch" => l = Val(torchArg)
    /\ \A r \in store : r.category = "torch" => ~IsNull(r.sale_mode)

\* A torch row without "wysiwyg" in its title reached the store from the
\* WooCommerce path, next to a wysiwyg one of mixed letter case.
C10_Witness ==
    /\ lpath = "woo"
    /\ Upserted
    /\ Val(built).category = "torch"
    /\ Val(built).sale_mode = Some("per_unit")
    /\ Val(built).unit_type = Some("head")
    /\ Val(built) \in store
    /\ \E r \in store : r.sale_mode = Some("wysiwyg") /\ r.title_raw = T_Wysiwyg

\* The product handle in the url of a row (null: the url names none).
HandleOfRow(r) == HandleIn(NewURL(Val(r.url)).pathname)

\* C13: for each Shopify product of a shop, whatever its number of variants,
\* in single-product and in catalog mode, the store holds at most one row,
\* and it holds one as soon as the product was visited and one of its
\* variants has a positive effective price (and, in catalog mode, its handle
\* is not empty).
C13_OneRowPerShopifyProduct ==
    /\ \A r1, r2 \in store :
          (r1.shop_id = r2.shop_id
             /\ ~IsNull(HandleOfRow(r1))
             /\ HandleOfRow(r1) = HandleOfRow(r2))
          => r1 = r2
    /\ (lpath \in {"single", "catalog"} /\ ~IsNull(torchArg)) =>
          (accepted /\ Val(built) \in store)


(***************************************************************************)
(* Claims about the builders (checked under SpecBuild)                     *)
(***************************************************************************)
\* The variant list the Shopify builder works on.
BuiltVariants == IF bKind = "html" THEN Val(bIn.analytics).variants ELSE bIn.variants

\* The effective price of a variant is its price; it counts when positive.
HasPositiveEff(v) == ~IsNull(v.price) /\ Val(v.price) > 0 /\ Val(v.price) # Infinity

\* Positions of the variants the selection is made among: the available ones
\* with a positive effective price, or failing any, all with one.
SelectionCandidates(vs) ==
    LET avail == {i \in 1..Len(vs) : vs[i].available = TRUE /\ HasPositiveEff(vs[i])}
    IN IF avail # {} THEN avail ELSE {i \in 1..Len(vs) : HasPositiveEff(vs[i])}

\* The first position of lowest effective price among the candidates.
ExpectedSelection(vs) ==
    CHOOSE i \in SelectionCandidates(vs) :
        \A j \in SelectionCandidates(vs) :
            \/ Val(vs[i].price) < Val(vs[j].price)
            \/ Val(vs[i].price) = Val(vs[j].price) /\ i <= j

\* C11: in single-product Shopify extraction (product JSON or the analytics
\* of the product page) the selected variant is the one of lowest effective
\* price among the available variants with a positive effective price, or,
\* when there is none, among all variants with one; of several with that
\* price the first of the variant list is selected, and the listing carries
\* its variant title and its availability.
C11_LowestAvailableFirst ==
    (bStage = "built" /\ bKind \in {"js", "html"}) =>
        IF SelectionCandidates(BuiltVariants) = {}
        THEN bBest = Null
        ELSE LET v == BuiltVariants[ExpectedSelection(BuiltVariants)]
             IN /\ bBest = Some(v)
                /\ ~IsNull(bOut)
                /\ Val(bOut).variant = VariantTitleOf(v)
                /\ Val(bOut).status = (IF v.available THEN "available" ELSE "sold_out")

\* An unavailable cheaper variant stands before an available dearer one: the
\* available one is selected.
C11_Witness ==
    /\ bStage = "built"
    /\ bKind = "js"
    /\ bIn.variants = <<JsVariant(Some(T_M), Some(2500), Null, FALSE),
                        JsVariant(Some(T_L), Some(3000), Some(4000), TRUE)>>
    /\ bBest = Some(JsVariant(Some(T_L), Some(3000), Some(4000), TRUE))

\* C12: for the selected Shopify variant with price p and compare-at price c
\* in cents: if c > p the listing has price_cad = c/100 and sale_price_cad =
\* p/100, otherwise price_cad = p/100 and sale_price_cad = null; the variant's
\* effective price is p/100 in both cases.  For the variants [{3000, 4000,
\* available}, {2500, null, unavailable}] the listing has price_cad = 40 and
\* sale_price_cad = 30.
C12_PriceAndSaleOfSelected ==
    (bStage = "built" /\ bKind \in {"js", "html"} /\ ~IsNull(bBest)) =>
        LET v == Val(bBest)
            pc == Val(v.price)
            l == Val(bOut)
        IN /\ ScoreJsVariant(v).eff = Some(Div100(pc))
           /\ IF ~IsNull(v.compare_at_price) /\ Val(v.compare_at_price) > pc
              THEN /\ l.price_cad = Some(Div100(Val(v.compare_at_price)))
                   /\ l.sale_price_cad = Some(Div100(pc))
              ELSE /\ l.price_cad = Some(Div100(pc))
                   /\ l.sale_price_cad = Null
           /\ BuiltVariants = <<JsVariant(Some(T_L), Some(3000), Some(4000), TRUE),
                                JsVariant(Some(T_M), Some(2500), Null, FALSE)>>
              => (l.price_cad = Some(40) /\ l.sale_price_cad = Some(30))

\* The variant is flagged available and its effective price, the lower of
\* price and compare-at price when both are there, is positive.
AvailableAtPositivePrice(v) ==
    /\ v.available
    /\ ~IsNull(v.price)
    /\ Val(v.price) > 0

\* C27: a listing built from a product of /products.json has status
\* available whatever the availability flags of its variants; a listing built
\* from /products/<handle>.js has status sold_out exactly when the selected
\* variant is not flagged available, which is when no variant with a positive
\* effective price is flagged available.
C27_SoldOutOnlyInSingleMode ==
    (bStage = "built" /\ ~IsNull(bOut)) =>
        /\ (bKind = "catalog") => (Val(bOut).status = "available")
        /\ (bKind = "js") =>
              /\ (Val(bOut).status = "sold_out") <=> ~Val(bBest).available
              /\ (Val(bOut).status = "sold_out") <=>
                    ~\E i \in 1..Len(bIn.variants) : AvailableAtPositivePrice(bIn.variants[i])
              /\ Val(bOut).status \in {"available", "sold_out"}

\* A catalog product whose only priced variant is flagged unavailable is built
\* as available.
C27_Witness ==
    /\ bStage = "built"
    /\ bKind = "catalog"
    /\ ~IsNull(bOut)
    /\ \A i \in 1..Len(bIn.variants) : ~bIn.variants[i].available
    /\ Val(bOut).status = "available"

(***************************************************************************)
(* Claims about upsertIfValid (checked under SpecUpsert)                   *)
(***************************************************************************)
SameKey(r1, r2) == r1.shop_id = r2.shop_id /\ r1.url = r2.url

C15_InvalidNeverStored ==
    /\ (upCalls > 0 /\
          (\/ IsNull(upArg)
           \/ Val(upArg).shop_id \in {<<>>, S_blank}
           \/ Val(upArg).url \in {<<>>, BlankUrl}
           \/ IsNull(Val(upArg).price_cad)
           \/ Val(Val(upArg).price_cad) <= 0))
       => (upRet = FALSE /\ upStore = upPrev)
    /\ \A r \in upStore :
          /\ r.shop_id \notin {<<>>, S_blank}
          /\ r.url \notin {<<>>, BlankUrl}
          /\ ~IsNull(r.price_cad) /\ Val(r.price_cad) > 0

\* A listing of price 0 is refused while the table holds a row.
C15_Witness ==
    /\ upCalls = 2
    /\ upPrev # {}
    /\ ~IsNull(upArg)
    /\ Val(upArg).shop_id = S_shop
    /\ Val(upArg).price_cad = Some(0)
    /\ upRet = FALSE
    /\ upStore = upPrev

(***************************************************************************)
(* Claims about the paginated walk (checked under SpecWalk)                *)
(***************************************************************************)
\* C16: extractLinksWithPagination stops at the first page that adds no new
\* link and fetches no later page, and never processes more than maxPages
\* pages; the pages processed are 1, 2, ... and the page count it reports is
\* the last of them, so when page 3 is the first to add nothing exactly the
\* pages 1, 2 and 3 are fetched and the count is 3.  The first request of
\* page n is the start URL with paged=n as its only paged parameter.
C16_StopsAtFirstBarrenPage ==
    /\ Len(wLog) <= wMax
    /\ \A i \in 1..Len(wLog) : wLog[i].page = i
    /\ \A i \in 1..Len(wLog) : (i < Len(wLog)) => (wLog[i].got /\ wLog[i].added > 0)
    /\ (wLog # <<>> /\ wLog[Len(wLog)].added = 0) => wpc = "done"
    /\ (wpc = "done") => (wPages = Len(wLog))
    /\ (wLog # <<>>) =>
          wReq[1] = (IF Len(wStart) = 3 THEN <<Origin, Slash, T_x>> ELSE <<Origin, Slash, T_x, Slash>>)
                       \o <<QMark, K_paged, EqSign, StringOfNat(Len(wLog))>>

\* With the cap at 80, page 3 is the first that adds nothing.
C16_Witness ==
    /\ wpc = "done"
    /\ wMax = DefaultMaxPages
    /\ Len(wLog) = 3
    /\ wLog[3].got /\ wLog[3].added = 0
    /\ wLog[1].added > 0 /\ wLog[2].added > 0
    /\ wPages = 3

\* The sum of a sequence of numbers.
RECURSIVE SumOf(_)
SumOf(q) == IF q = <<>> THEN 0 ELSE q[1] + SumOf(Tail(q))

\* The URL ends with ?paged=n or &paged=n.
IsQueryForm(u, n) ==
    /\ Len(u) >= 4
    /\ SubSeq(u, Len(u) - 2, Len(u)) = <<K_paged, EqSign, StringOfNat(n)>>
    /\ u[Len(u) - 3] \in {QMark, Amp}

\* The URL has no query and its path ends with /page/n.
IsPathForm(u, n) ==
    /\ Len(u) >= 4
    /\ SubSeq(u, Len(u) - 3, Len(u)) = <<Slash, S_page, Slash, StringOfNat(n)>>
    /\ \A i \in 1..Len(u) : u[i] # QMark

C17_DeleteBeforeAnything ==
    /\ (rIdx > 0 \/ spc # "idle" \/ rDebug # <<>>) => (store \cap PriorRows = {})
    /\ (rStatus = 200 /\ ~IsNull(rBody.debug)) =>
          /\ store \cap PriorRows = {}
          /\ Cardinality(store) <= rTotal
          /\ \A r \in store : \E i \in 1..Len(rSources) : rSources[i].shop_id = r.shop_id

\* A run reports with rows in the table although a source of the shop of the
\* earlier run's row failed.
C17_Witness ==
    /\ rStatus = 200
    /\ ~IsNull(rBody.debug)
    /\ store # {}
    /\ \E i \in 1..Len(rFail) :
          /\ rFail[i] # "none"
          /\ \E old \in PriorRows : rSources[i].shop_id = old.shop_id

\* C18: when a source fails (empty shop_id, unparseable or unreachable origin,
\* catalog page failure) the run goes on: the report has one entry per active
\* source, in the order of the list, and the entry of a failed source has
\* found 0 and an error.
C18_FailedSourceReported ==
    (rStatus = 200 /\ ~IsNull(rBody.debug)) =>
        LET debug == Val(rBody.debug)
        IN /\ Len(debug) = Len(rSources)
           /\ \A i \in 1..Len(debug) :
                 \/ debug[i].source.url = rSources[i].url
                 \/ /\ UrlParses(rSources[i].url)
                    /\ debug[i].source.url = <<NewURL(rSources[i].url).origin>>
           /\ \A i \in 1..Len(debug) :
                 (rFail[i] # "none") => (debug[i].found = 0 /\ ~IsNull(debug[i].error))

\* C19: when the delete of the listings or the read of the sources fails, the
\* run aborts: no source is scraped, nothing is fetched or upserted, and the
\* answer is 500 with { ok: false, error }; a run that gets through its loop
\* answers 200 with ok: true.
C19_RunLevelFailureAborts ==
    /\ (rpc = "responded" /\ rRoute = "unnamed" /\ authorized(rSecret, rReq) /\ rIdx = 0)
          => rStatus = 500
    /\ (rStatus = 500) =>
          /\ rBody.ok = Some(FALSE)
          /\ ~IsNull(rBody.error)
          /\ rIdx = 0 /\ rDebug = <<>> /\ rTotal = 0
          /\ ScrapeAtRest
          /\ store \subseteq PriorRows
    /\ (rpc = "responded" /\ rIdx > 0) =>
          (rStatus = 200 /\ rBody.ok = Some(TRUE) /\ rIdx = Len(rSources) + 1)

\* The read of the sources failed after the delete: 500, nothing scraped.
C19_Witness ==
    /\ rStatus = 500
    /\ rBody.error = Some("select failed")
    /\ store = {}
    /\ rIdx = 0

\* C20: with a secret configured, a GET or POST with neither the header
\* "Authorization: Bearer <secret>" nor the parameter secret=<secret> is
\* answered 401 and starts no run: nothing is deleted, no source is read,
\* nothing is fetched or upserted.
C20_NoCredentialNoRun ==
    (/\ rpc # "idle"
     /\ rSecret # <<>>
     /\ rReq.authorization # Some(S_Bearer \o rSecret)
     /\ rReq.secret # Some(rSecret))
    => /\ (rpc = "responded") => (rStatus = 401)
       /\ rpc \in {"request", "responded"}
       /\ store = PriorRows
       /\ rIdx = 0 /\ rDebug = <<>>
       /\ ScrapeAtRest


\* C21: the total of the report is the sum of the found counts of its
\* entries, and the found count of every source is the number of upserts of
\* that source the store applied.
C21_TotalIsWhatTheStoreApplied ==
    (rStatus = 200 /\ ~IsNull(rBody.debug)) =>
        LET debug == Val(rBody.debug)
        IN /\ rBody.inserted_or_updated = Some(SumOf([i \in 1..Len(debug) |-> debug[i].found]))
           /\ \A i \in 1..Len(debug) : debug[i].found = rApplied[i]

FailedProbes == {"no-array", "bad-json", "threw"}

\* C24: with a shop_id, a ReefSolution source goes to catalog mode and the
\* probe is never issued; any other source is probed at
\* {origin}/products.json?limit=1&page=1 with at most 3 requests, catalog mode
\* is used exactly when the probe met a 2xx answer with an array of products,
\* link discovery exactly when the probe failed, and a failed probe never
\* makes the source return an error.
C24_RoutingOrder ==
    /\ (kpc # "start" /\ CatHasShopId /\ UrlParses(kSrc.url) /\ isReefSolutionSource(kSrc)) =>
          /\ kMode \in {"reef", "error"}
          /\ kProbe = "none" /\ kProbeReqs = 0
          /\ fpc = "idle" /\ requests = 0
          /\ kLastUrl # <<ReefOrigin, Slash, S_productsJson, QMark, K_limit, EqSign, T_1,
                          Amp, K_page, EqSign, T_1>>
    /\ (kpc # "start" /\ CatHasShopId /\ UrlParses(kSrc.url) /\ ~isReefSolutionSource(kSrc)) =>
          /\ (kpc = "probing") # (kProbe # "none")
          /\ (kpc = "probing") =>
                kLastUrl = <<Origin, Slash, S_productsJson, QMark, K_limit, EqSign, T_1,
                             Amp, K_page, EqSign, T_1>>
          /\ requests <= 3 /\ kProbeReqs <= 3
          /\ (kMode \in {"catalog", "error"}) <=> (kProbe = "array")
          /\ (kMode = "discover") <=> (kProbe \in FailedProbes)
          /\ (kProbe \in FailedProbes) => (kpc = "done" /\ kRet = "none")
    /\ (kProbe = "array") => (kProbeReqs >= 1)

\* Three requests of the probe were answered 5xx or 429: the probe gives up
\* and the source goes to link discovery.
C24_Witness ==
    /\ kMode = "discover"
    /\ kProbe = "threw"
    /\ kProbeReqs = 3
    /\ kRet = "none"

\* The products of the pages in kLog, in page order.
RECURSIVE ConcatPages(_)
ConcatPages(log) ==
    IF log = <<>> THEN <<>>
    ELSE (IF IsNull(log[1]) THEN <<>> ELSE Val(log[1])) \o ConcatPages(Tail(log))

PageIsEmpty(products) == IsNull(products) \/ Val(products) = <<>>

\* C25: fetchShopifyCatalogProducts requests the pages 1, 2, 3, ... in order,
\* stops at the first page whose products are empty or missing, requests
\* fewer than 200 pages, and returns (to the loop that visits the products)
\* the products of the non-empty pages in page order.
C25_CatalogPaging ==
    /\ Len(kLog) < 200
    /\ \A i \in 1..Len(kLog) :
          \A j \in 1..Len(IF IsNull(kLog[i]) THEN <<>> ELSE Val(kLog[i])) :
              Val(kLog[i])[j][1] = i
    /\ \A i \in 1..Len(kLog) : (i < Len(kLog)) => ~PageIsEmpty(kLog[i])
    /\ (kLog # <<>> /\ PageIsEmpty(kLog[Len(kLog)])) => (kpc \in {"upserting", "done"})
    /\ (kpc = "paging" /\ kLog # <<>>) =>
          kLastUrl = <<NewURL(kSrc.url).origin, Slash, S_productsJson, QMark, K_limit, EqSign,
                       T_100, Amp, K_page, EqSign, StringOfNat(Len(kLog))>>
    /\ (kpc = "upserting" /\ kVisited = 0) => (kOut = ConcatPages(kLog) /\ kLeft = Len(kOut))

\* Page 3 is the first empty one: the products of pages 1 and 2 are returned.
C25_Witness ==
    /\ kpc = "upserting"
    /\ Len(kLog) = 3
    /\ kLog[3] = Some(<<>>)
    /\ kOut = << <<1, 1>>, <<1, 2>>, <<2, 1>> >>
    /\ kLeft = 3

\* C28: in catalog mode no product is visited (so none upserted) before the
\* last catalog page has come back, and when the fetch of a catalog page
\* fails no product of the source is visited and the catch of scrapeSource
\* returns found 0 with the error.
C28_NoUpsertBeforeAllPages ==
    /\ (kVisited > 0) =>
          /\ kpc \in {"upserting", "done"}
          /\ kRet # "error"
          /\ (Len(kLog) = 199 \/ PageIsEmpty(kLog[Len(kLog)]))
    /\ (kMode = "error" /\ UrlParses(kSrc.url)) =>
          /\ kRet = "error"
          /\ kVisited = 0
          /\ kLeft = 0
          /\ kpc = "done"

\* Two pages came back with products, the third failed: nothing was visited.
C28_Witness ==
    /\ kMode = "error"
    /\ Len(kLog) = 2
    /\ ~PageIsEmpty(kLog[1]) /\ ~PageIsEmpty(kLog[2])
    /\ kVisited = 0
    /\ kRet = "error"

(***************************************************************************)
(* Claims about the image of a page (checked under SpecImg)                *)
(***************************************************************************)
\* What is left of a candidate of the model: the absolute URL of the two good
\* images, null for every other candidate.
SurvivingImg(c) ==
    IF c = Some(Img_full) THEN Some(Img_full)
    ELSE IF c = Some(Img_rel) THEN Some(PageOrigin \o Img_rel)
    ELSE Null

\* C23: in both HTML paths the image of the listing is the first candidate, in
\* priority order, that resolves to an absolute URL and matches no bad-image
\* pattern, and null when no candidate survives; for the candidates logo.svg,
\* prod-150x150.jpg, prod-full.jpg it is prod-full.jpg.
C23_FirstSurvivingImage ==
    (iStage = "picked") =>
        LET good == {i \in 1..Len(iCands) : ~IsNull(SurvivingImg(iCands[i]))}
        IN IF good = {} THEN iOut = Null
           ELSE iOut = SurvivingImg(iCands[CHOOSE i \in good : \A j \in good : i <= j])

(***************************************************************************)
(* Claims about two runs at once (checked under SpecOverlap)               *)
(***************************************************************************)
\* The listings a run leaves in an empty table: of every key the last listing
\* of the list that upsertIfValid takes.
RowsOfOneRun(list) ==
    {Val(list[i]) : i \in {j \in 1..Len(list) :
        /\ IsValidListing(list[j])
        /\ \A k \in (j + 1)..Len(list) :
              IsValidListing(list[k]) => ~SameKey(Val(list[k]), Val(list[j]))}}

\* C30: two runs interleave their store calls, the sources give both the same
\* listings and nothing fails; once both have returned the table holds
\* exactly the rows one run alone leaves, so no row a run upserted is lost to
\* the delete of the other, and no key has two rows.
C30_OverlappingRunsAgree ==
    (\A r \in Runs : oPc[r] = "done") =>
        /\ oStore = RowsOfOneRun(oList)
        /\ \A r1, r2 \in oStore : SameKey(r1, r2) => r1 = r2

\* Both runs have returned, and the delete of one had removed a row the other
\* had upserted.
C30_Witness ==
    /\ \A r \in Runs : oPc[r] = "done"
    /\ oWiped
    /\ Cardinality(oStore) = 2

(***************************************************************************)
(* Claims about the awaited calls of a run (checked under SpecSeq)         *)
(***************************************************************************)
\* C22: within one run at most one HTTP request is in flight and at most one
\* store operation is pending, never both at once; when the loop of run()
\* comes to its next source, and when the loop of a source comes to its next
\* product or link, no request of the one before is in flight and no store
\* operation of it is pending, and a source is left with no product or link
\* of its own still to start.
C22_OneCallAtATime ==
    /\ qHttp \in {0, 1}
    /\ qStore \in {0, 1}
    /\ qHttp + qStore <= 1
    /\ (qPc[2] # "wait") => (qHttp = 0 /\ qStore = 0)
    /\ (qPc[1] = "source") => (qHttp = 0 /\ qStore = 0 /\ qItems = 0)
    /\ (qPc[1] = "item") => (qHttp = 0 /\ qStore = 0)

\* The upsert of a link of the last source is pending, one more link is to
\* come.
C22_Witness ==
    /\ qPc = <<"upsert", "wait">>
    /\ qMode = "links"
    /\ qStore = 1
    /\ qHttp = 0
    /\ qItems = 1
    /\ qSrc = 0

====
